---- MODULE Spec2Model ----
(***************************************************************************)
(* Model of the simple-script-compiler pipeline: the tokenizer             *)
(* (src/src/lexer.rs), the recursive-descent parser (src/src/parser.rs)    *)
(* and the tree-walking evaluator (src/src/interpreter.rs).                *)
(*                                                                         *)
(* A source text is a sequence of one-character strings.  A number (f64)   *)
(* is the decimal it was written as: mant / 10^scale, kept normalised (no  *)
(* trailing zero in the fraction), so two literals are equal exactly when  *)
(* their doubles are equal for the short literals explored here.  The      *)
(* sign of zero is not kept (-0.0 == 0.0 in Rust's PartialEq).             *)
(***************************************************************************)
EXTENDS Integers, Sequences, FiniteSets, TLC

(***************************************************************************)
(* Bounds of the exploration.                                              *)
(***************************************************************************)
MaxLen == 4

MaxNumLen == 3

MaxExtraAdvance == 2

MaxWordLen == 4

MaxStmts == 3

MaxLaterCalls == 2

(***************************************************************************)
(* Characters.                                                             *)
(***************************************************************************)
NoChar == ""

Whitespace == {" ", "\t", "\n"}

Digits == {"0", "1", "2", "3", "4", "5", "6", "7", "8", "9"}

Letters == {"a", "b", "c", "d", "e", "f", "g", "h", "i", "j", "k", "l", "m",
            "n", "o", "p", "q", "r", "s", "t", "u", "v", "w", "x", "y", "z",
            "A", "B", "C", "D", "E", "F", "G", "H", "I", "J", "K", "L", "M",
            "N", "O", "P", "Q", "R", "S", "T", "U", "V", "W", "X", "Y", "Z"}

is_whitespace(ch) == ch \in Whitespace

is_ascii_digit(ch) == ch \in Digits

is_alphabetic(ch) == ch \in Letters

is_alphanumeric(ch) == ch \in Letters \cup Digits

DigitValue(ch) ==
    CASE ch = "0" -> 0 [] ch = "1" -> 1 [] ch = "2" -> 2 [] ch = "3" -> 3
      [] ch = "4" -> 4 [] ch = "5" -> 5 [] ch = "6" -> 6 [] ch = "7" -> 7
      [] ch = "8" -> 8 [] ch = "9" -> 9

DigitChar(d) == <<"0", "1", "2", "3", "4", "5", "6", "7", "8", "9">>[d + 1]

(***************************************************************************)
(* The character cursor: Peekable<Chars>.  pos is the index of the next    *)
(* unread character; Len(input) + 1 when the iterator is exhausted.        *)
(***************************************************************************)
Peek(input, pos) == IF pos <= Len(input) THEN input[pos] ELSE NoChar

NextPos(input, pos) == IF pos <= Len(input) THEN pos + 1 ELSE pos

(***************************************************************************)
(* Literals and tokens.                                                    *)
(***************************************************************************)
StringLit(s) == [kind |-> "String", s |-> s]

RECURSIVE Normalise(_, _)
Normalise(mant, scale) ==
    IF scale > 0 /\ mant % 10 = 0
    THEN Normalise(mant \div 10, scale - 1)
    ELSE [mant |-> mant, scale |-> scale]

NumberLit(mant, scale) ==
    LET n == Normalise(mant, scale)
    IN  [kind |-> "Number", mant |-> n.mant, scale |-> n.scale]

BooleanLit(b) == [kind |-> "Boolean", b |-> b]

TokVar == [type |-> "Var"]

TokIdentifier(name) == [type |-> "Identifier", name |-> name]

TokEquals == [type |-> "Equals"]

TokSemiColon == [type |-> "SemiColon"]

TokLiteral(lit) == [type |-> "Literal", lit |-> lit]

TokLeftParen == [type |-> "LeftParen"]

TokRightParen == [type |-> "RightParen"]

TokComma == [type |-> "Comma"]

TokEOF == [type |-> "EOF"]

(***************************************************************************)
(* str::parse::<f64>() on the text read_number collects.  Of Rust's float  *)
(* grammar only the part that text can reach is modelled: an optional      *)
(* leading '-', then digits with at most one '.', and at least one digit   *)
(* ("5." and ".5" parse, "", "-", "." and "1.2.3" do not).                 *)
(***************************************************************************)
RECURSIVE CountOf(_, _)
CountOf(s, chs) ==
    IF s = <<>> THEN 0
    ELSE (IF Head(s) \in chs THEN 1 ELSE 0) + CountOf(Tail(s), chs)

RECURSIVE DigitsValue(_, _)
DigitsValue(s, acc) ==
    IF s = <<>> THEN acc
    ELSE IF Head(s) \in Digits
         THEN DigitsValue(Tail(s), acc * 10 + DigitValue(Head(s)))
         ELSE DigitsValue(Tail(s), acc)

RECURSIVE FractionDigits(_)
FractionDigits(s) ==
    IF s = <<>> THEN 0
    ELSE IF Head(s) = "." THEN CountOf(Tail(s), Digits)
         ELSE FractionDigits(Tail(s))

ParseFloat(num_str) ==
    LET neg  == num_str # <<>> /\ Head(num_str) = "-"
        body == IF neg THEN Tail(num_str) ELSE num_str
        ok   == /\ \A i \in 1..Len(body) : body[i] \in Digits \cup {"."}
                /\ CountOf(body, {"."}) <= 1
                /\ CountOf(body, Digits) >= 1
        mag  == DigitsValue(body, 0)
    IN  IF ok
        THEN [ok |-> TRUE,
              num |-> NumberLit(IF neg THEN 0 - mag ELSE mag, FractionDigits(body))]
        ELSE [ok |-> FALSE]

(***************************************************************************)
(* Lexer helpers.                                                          *)
(***************************************************************************)
RECURSIVE skip_whitespace(_, _)
skip_whitespace(input, pos) ==
    IF pos <= Len(input) /\ is_whitespace(input[pos])
    THEN skip_whitespace(input, pos + 1)
    ELSE pos

RECURSIVE NumberRunEnd(_, _)
NumberRunEnd(input, pos) ==
    IF pos <= Len(input) /\ (is_ascii_digit(input[pos]) \/ input[pos] = ".")
    THEN NumberRunEnd(input, pos + 1)
    ELSE pos

\* read_number without `num_str.push('-')`: the sign is consumed but not kept.
read_number_unsigned(input, pos) ==
    LET p1 == IF Peek(input, pos) = "-" THEN pos + 1 ELSE pos
        p2 == NumberRunEnd(input, p1)
    IN  [res |-> ParseFloat(SubSeq(input, p1, p2 - 1)), pos |-> p2]

read_number(input, pos) ==
    LET p1 == IF Peek(input, pos) = "-" THEN pos + 1 ELSE pos
        p2 == NumberRunEnd(input, p1)
    IN  [res |-> ParseFloat(SubSeq(input, pos, p2 - 1)), pos |-> p2]

RECURSIVE IdentifierRunEnd(_, _)
IdentifierRunEnd(input, pos) ==
    IF pos <= Len(input) /\ (is_alphanumeric(input[pos]) \/ input[pos] = "_")
    THEN IdentifierRunEnd(input, pos + 1)
    ELSE pos

read_identifier(input, pos) ==
    LET p == IdentifierRunEnd(input, pos)
    IN  [identifier |-> SubSeq(input, pos, p - 1), pos |-> p]

RECURSIVE StringRunEnd(_, _)
StringRunEnd(input, pos) ==
    IF pos <= Len(input) /\ input[pos] # "\""
    THEN StringRunEnd(input, pos + 1)
    ELSE pos

\* read_string with escape processing: a backslash keeps the character after
\* it inside the literal, a quotation mark included.
read_string_escaped(input, pos) ==
    IF Peek(input, pos) # "\""
    THEN [string |-> <<>>, pos |-> pos]
    ELSE LET End[k \in 0..Len(input)] ==
                 LET q == Len(input) + 1 - k
                 IN  IF k = 0 \/ input[q] = "\"" THEN q
                     ELSE IF input[q] = "\\" /\ k >= 2 THEN End[k - 2]
                     ELSE End[k - 1]
             p == End[Len(input) - pos]
         IN  [string |-> SubSeq(input, pos + 1, p - 1), pos |-> NextPos(input, p)]

read_string(input, pos) ==
    IF Peek(input, pos) # "\""
    THEN [string |-> <<>>, pos |-> pos]
    ELSE LET p == StringRunEnd(input, pos + 1)
         IN  [string |-> SubSeq(input, pos + 1, p - 1), pos |-> NextPos(input, p)]

(***************************************************************************)
(* The arms of next_token's match.  Each yields either a token (emit) or   *)
(* the cursor from which the loop continues.                               *)
(***************************************************************************)
Emit(tok, pos) == [emit |-> TRUE, tok |-> tok, pos |-> pos]

Continue(pos) == [emit |-> FALSE, pos |-> pos]

\* The None arm on a cursor that starts over once it is exhausted.
EndOfInputArm_rewind(input, pos) == Emit(TokEOF, 1)

EndOfInputArm(input, pos) == Emit(TokEOF, pos)

SingleCharArm(input, pos) ==
    LET ch == input[pos]
    IN  Emit(CASE ch = "=" -> TokEquals
               [] ch = ";" -> TokSemiColon
               [] ch = "(" -> TokLeftParen
               [] ch = ")" -> TokRightParen
               [] ch = "," -> TokComma,
             pos + 1)

\* match self.read_number(): Ok(num) returns the literal, Err(_) discards one
\* more character and continues.
NumberResult(input, r) ==
    IF r.res.ok
    THEN Emit(TokLiteral(r.res.num), r.pos)
    ELSE Continue(NextPos(input, r.pos))

NumberArm(input, pos) == NumberResult(input, read_number(input, pos))

MinusArm(input, pos) ==
    LET ch == Peek(input, pos + 1)
    IN  IF ch # NoChar /\ (is_ascii_digit(ch) \/ ch = ".")
        THEN NumberArm(input, pos)
        ELSE Continue(pos + 1)

DotArm(input, pos) ==
    LET ch == Peek(input, pos + 1)
    IN  IF ch # NoChar /\ is_ascii_digit(ch)
        THEN NumberArm(input, pos)
        ELSE Continue(pos + 1)

\* match identifier.as_str()
\* A classification by prefix: every word that begins with a keyword is that
\* keyword.
Classify_prefix(identifier) ==
    LET StartsWith(word) ==
            Len(identifier) >= Len(word) /\ SubSeq(identifier, 1, Len(word)) = word
    IN  CASE StartsWith(<<"v", "a", "r">>) -> TokVar
          [] StartsWith(<<"t", "r", "u", "e">>) -> TokLiteral(BooleanLit(TRUE))
          [] StartsWith(<<"f", "a", "l", "s", "e">>) -> TokLiteral(BooleanLit(FALSE))
          [] OTHER -> TokIdentifier(identifier)

Classify(identifier) ==
    CASE identifier = <<"v", "a", "r">> -> TokVar
      [] identifier = <<"t", "r", "u", "e">> -> TokLiteral(BooleanLit(TRUE))
      [] identifier = <<"f", "a", "l", "s", "e">> -> TokLiteral(BooleanLit(FALSE))
      [] OTHER -> TokIdentifier(identifier)

IdentifierResult(r) == Emit(Classify(r.identifier), r.pos)

IdentifierArm(input, pos) == IdentifierResult(read_identifier(input, pos))

StringResult(r) == Emit(TokLiteral(StringLit(r.string)), r.pos)

StringArm(input, pos) == StringResult(read_string(input, pos))

\* The fallback arm of a lexer that ends the token stream at an unknown character.
FallbackArm_stop(input, pos) == Emit(TokEOF, pos)

FallbackArm(input, pos) == Continue(pos + 1)

\* match self.chars.peek()
MatchPeek(input, pos, ch) ==
    CASE ch = NoChar -> EndOfInputArm(input, pos)
      [] ch \in {"=", ";", "(", ")", ","} -> SingleCharArm(input, pos)
      [] ch = "-" -> MinusArm(input, pos)
      [] ch = "." -> DotArm(input, pos)
      [] is_ascii_digit(ch) -> NumberArm(input, pos)
      [] is_alphabetic(ch) \/ ch = "_" -> IdentifierArm(input, pos)
      [] ch = "\"" -> StringArm(input, pos)
      [] OTHER -> FallbackArm(input, pos)

RECURSIVE next_token(_, _)
RECURSIVE LoopStep(_, _)

\* One turn of the loop: the arm returns its token or the loop continues.
LoopStep(input, arm) ==
    IF arm.emit
    THEN [tok |-> arm.tok, pos |-> arm.pos]
    ELSE next_token(input, arm.pos)

AfterWhitespace(input, pos) == LoopStep(input, MatchPeek(input, pos, Peek(input, pos)))

next_token(input, pos0) == AfterWhitespace(input, skip_whitespace(input, pos0))

(***************************************************************************)
(* Lexer::advance as the parser sees it: the lexer is the pair of the      *)
(* cursor and the current token.                                           *)
(***************************************************************************)
LexerState(pos, tok) == [pos |-> pos, current_token |-> tok]

Advanced(r) == LexerState(r.pos, r.tok)

advance(input, lx) == Advanced(next_token(input, lx.pos))

(***************************************************************************)
(* The AST.                                                                *)
(***************************************************************************)
ExprLiteral(lit) == [type |-> "Literal", lit |-> lit]

ExprIdentifier(name) == [type |-> "Identifier", name |-> name]

ExprFunctionCall(name, args) == [type |-> "FunctionCall", name |-> name, args |-> args]

StmtVarDeclaration(name, value) == [type |-> "VarDeclaration", name |-> name, value |-> value]

StmtExpression(expr) == [type |-> "Expression", expr |-> expr]

UnexpectedToken(expected, found) ==
    [type |-> "UnexpectedToken", expected |-> expected, found |-> found]

ParseOk(val, lx) == [ok |-> TRUE, val |-> val, lx |-> lx]

ParseErr(err, lx) == [ok |-> FALSE, err |-> err, lx |-> lx]

(***************************************************************************)
(* The parser.  `expected` is the discriminant name format!("{:?}") gives. *)
(***************************************************************************)
\* expect_token that reports the end of input with its own error variant.
expect_token_eof(input, lx, expected) ==
    IF lx.current_token.type = expected
    THEN ParseOk(TRUE, advance(input, lx))
    ELSE IF lx.current_token = TokEOF
         THEN ParseErr([type |-> "UnexpectedEOF"], lx)
         ELSE ParseErr(UnexpectedToken(expected, lx.current_token), lx)

expect_token(input, lx, expected) ==
    IF lx.current_token.type = expected
    THEN ParseOk(TRUE, advance(input, lx))
    ELSE ParseErr(UnexpectedToken(expected, lx.current_token), lx)

RECURSIVE parse_expression(_, _)
RECURSIVE parse_function_call(_, _, _)
RECURSIVE parse_arguments(_, _, _, _)
RECURSIVE IdentifierOrCall(_, _, _)
RECURSIVE CallAfterLeftParen(_, _, _)
RECURSIVE ArgumentParsed(_, _, _, _)

parse_expression(input, lx) ==
    CASE lx.current_token.type = "Literal" ->
           ParseOk(ExprLiteral(lx.current_token.lit), advance(input, lx))
      [] lx.current_token.type = "Identifier" ->
           IdentifierOrCall(input, lx.current_token.name, advance(input, lx))
      [] OTHER -> ParseErr(UnexpectedToken("expression", lx.current_token), lx)

\* After the identifier: a call when the next token is LeftParen.
\* An identifier reference that also consumes the token after the identifier.
IdentifierOrCall_consume(input, name, lx) ==
    IF lx.current_token.type = "LeftParen"
    THEN parse_function_call(input, lx, name)
    ELSE ParseOk(ExprIdentifier(name), advance(input, lx))

IdentifierOrCall(input, name, lx) ==
    IF lx.current_token.type = "LeftParen"
    THEN parse_function_call(input, lx, name)
    ELSE ParseOk(ExprIdentifier(name), lx)

parse_function_call(input, lx, name) ==
    CallAfterLeftParen(input, name, expect_token(input, lx, "LeftParen"))

\* After expect_token(LeftParen)?: the empty argument list, or the loop.
CallAfterLeftParen(input, name, open) ==
    IF ~open.ok THEN open
    ELSE IF open.lx.current_token.type = "RightParen"
         THEN ParseOk(ExprFunctionCall(name, <<>>), advance(input, open.lx))
         ELSE parse_arguments(input, open.lx, name, <<>>)

\* One turn of the argument loop: parse_expression()?, push, match the token.
parse_arguments(input, lx, name, args) ==
    ArgumentParsed(input, name, args, parse_expression(input, lx))

ArgumentParsed(input, name, args, arg) ==
    IF ~arg.ok THEN arg
    ELSE CASE arg.lx.current_token.type = "Comma" ->
                parse_arguments(input, advance(input, arg.lx), name,
                                Append(args, arg.val))
           [] arg.lx.current_token.type = "RightParen" ->
                ParseOk(ExprFunctionCall(name, Append(args, arg.val)),
                        advance(input, arg.lx))
           [] OTHER ->
                ParseErr(UnexpectedToken("',' or ')'", arg.lx.current_token), arg.lx)

\* expect_token(SemiColon)? and the statement returned.
StatementEnd(stmt, semi) ==
    IF ~semi.ok THEN semi ELSE ParseOk(stmt, semi.lx)

\* After `let value = self.parse_expression()?`.
DeclarationValue(input, name, value) ==
    IF ~value.ok THEN value
    ELSE StatementEnd(StmtVarDeclaration(name, value.val),
                      expect_token(input, value.lx, "SemiColon"))

\* After expect_token(Equals)?.
DeclarationEquals(input, name, eq) ==
    IF ~eq.ok THEN eq
    ELSE DeclarationValue(input, name, parse_expression(input, eq.lx))

\* After the first advance: the name must be an identifier.
DeclarationName(input, lx) ==
    IF lx.current_token.type # "Identifier"
    THEN ParseErr(UnexpectedToken("identifier", lx.current_token), lx)
    ELSE DeclarationEquals(input, lx.current_token.name,
                           expect_token(input, advance(input, lx), "Equals"))

parse_var_declaration(input, lx) == DeclarationName(input, advance(input, lx))

\* After `let expr = self.parse_expression()?` of an expression statement.
\* An expression statement that recovers from a failed expression by yielding
\* a statement without consuming a token.
ExpressionStatement_recover(input, expr) ==
    IF ~expr.ok THEN ParseOk(StmtExpression(ExprIdentifier(<<"_">>)), expr.lx)
    ELSE StatementEnd(StmtExpression(expr.val),
                      expect_token(input, expr.lx, "SemiColon"))

ExpressionStatement(input, expr) ==
    IF ~expr.ok THEN expr
    ELSE StatementEnd(StmtExpression(expr.val),
                      expect_token(input, expr.lx, "SemiColon"))

parse_statement(input, lx) ==
    IF lx.current_token.type = "Var"
    THEN parse_var_declaration(input, lx)
    ELSE ExpressionStatement(input, parse_expression(input, lx))

(***************************************************************************)
(* Runtime values and their display form (impl Display for Value).         *)
(***************************************************************************)
ValString(s) == [kind |-> "String", s |-> s]

ValNumber(mant, scale) == NumberLit(mant, scale)

ValBoolean(b) == [kind |-> "Boolean", b |-> b]

ValNull == [kind |-> "Null"]

RECURSIVE NatToChars(_)
NatToChars(n) ==
    IF n < 10 THEN <<DigitChar(n)>>
    ELSE Append(NatToChars(n \div 10), DigitChar(n % 10))

RECURSIVE Pow10(_)
Pow10(k) == IF k = 0 THEN 1 ELSE 10 * Pow10(k - 1)

RECURSIVE PadLeft(_, _)
PadLeft(s, width) == IF Len(s) >= width THEN s ELSE PadLeft(<<"0">> \o s, width)

Abs(n) == IF n < 0 THEN 0 - n ELSE n

DisplayNumber(n) ==
    LET sign == IF n.mant < 0 THEN <<"-">> ELSE <<>>
        mag  == Abs(n.mant)
    IN  IF n.scale = 0
        THEN sign \o NatToChars(mag)
        ELSE sign \o NatToChars(mag \div Pow10(n.scale)) \o <<".">>
                  \o PadLeft(NatToChars(mag % Pow10(n.scale)), n.scale)

Display(value) ==
    CASE value.kind = "String" -> value.s
      [] value.kind = "Number" -> DisplayNumber(value)
      [] value.kind = "Boolean" ->
           IF value.b THEN <<"t", "r", "u", "e">> ELSE <<"f", "a", "l", "s", "e">>
      [] value.kind = "Null" -> <<"n", "u", "l", "l">>

(***************************************************************************)
(* Runtime errors and the Environment.                                     *)
(***************************************************************************)
UndefinedVariable(name) == [type |-> "UndefinedVariable", name |-> name]

UndefinedFunction(name) == [type |-> "UndefinedFunction", name |-> name]

ArityMismatch(function, expected, found) ==
    [type |-> "ArityMismatch", function |-> function,
     expected |-> expected, found |-> found]

EvalOk(val, out) == [ok |-> TRUE, val |-> val, out |-> out]

EvalErr(err, out) == [ok |-> FALSE, err |-> err, out |-> out]

EnvironmentNew == [name \in {} |-> ValNull]

\* define that keeps an existing entry (entry().or_insert()).
define_keep_first(variables, name, value) ==
    [n \in DOMAIN variables \cup {name} |->
        IF n \in DOMAIN variables THEN variables[n] ELSE value]

define(variables, name, value) ==
    [n \in DOMAIN variables \cup {name} |-> IF n = name THEN value ELSE variables[n]]

\* get that answers Null for a name without an entry.
get_or_null(variables, name) ==
    IF name \in DOMAIN variables
    THEN EvalOk(variables[name], <<>>)
    ELSE EvalOk(ValNull, <<>>)

get(variables, name) ==
    IF name \in DOMAIN variables
    THEN EvalOk(variables[name], <<>>)
    ELSE EvalErr(UndefinedVariable(name), <<>>)

literal_to_value(literal) ==
    CASE literal.kind = "String" -> ValString(literal.s)
      [] literal.kind = "Number" -> ValNumber(literal.mant, literal.scale)
      [] literal.kind = "Boolean" -> ValBoolean(literal.b)

(***************************************************************************)
(* The builtins.  `out` is the text written to standard output.            *)
(***************************************************************************)
RECURSIVE PrintArgs(_, _)
PrintArgs(args, i) ==
    IF i > Len(args) THEN <<>>
    ELSE (IF i > 1 THEN <<" ">> ELSE <<>>) \o Display(args[i]) \o PrintArgs(args, i + 1)

\* print that writes a space after every argument, the last one included.
builtin_print_trailing(args) ==
    EvalOk(ValNull, PrintArgs(args, 1) \o (IF args = <<>> THEN <<>> ELSE <<" ">>))

builtin_print(args) == EvalOk(ValNull, PrintArgs(args, 1))

builtin_println(args) == EvalOk(ValNull, builtin_print(args).out \o <<"\n">>)

\* typeof with the name `undefined` for Null.
builtin_typeof_undefined(args) ==
    IF Len(args) # 1
    THEN EvalErr(ArityMismatch(<<"t", "y", "p", "e", "o", "f">>, 1, Len(args)), <<>>)
    ELSE EvalOk(ValString(CASE args[1].kind = "String" -> <<"s", "t", "r", "i", "n", "g">>
                            [] args[1].kind = "Number" -> <<"n", "u", "m", "b", "e", "r">>
                            [] args[1].kind = "Boolean" -> <<"b", "o", "o", "l", "e", "a", "n">>
                            [] args[1].kind = "Null" ->
                                 <<"u", "n", "d", "e", "f", "i", "n", "e", "d">>),
                <<>>)

\* typeof that only requires a first argument and ignores further ones.
builtin_typeof_first(args) ==
    IF Len(args) < 1
    THEN EvalErr(ArityMismatch(<<"t", "y", "p", "e", "o", "f">>, 1, Len(args)), <<>>)
    ELSE EvalOk(ValString(CASE args[1].kind = "String" -> <<"s", "t", "r", "i", "n", "g">>
                            [] args[1].kind = "Number" -> <<"n", "u", "m", "b", "e", "r">>
                            [] args[1].kind = "Boolean" -> <<"b", "o", "o", "l", "e", "a", "n">>
                            [] args[1].kind = "Null" -> <<"n", "u", "l", "l">>),
                <<>>)

builtin_typeof(args) ==
    IF Len(args) # 1
    THEN EvalErr(ArityMismatch(<<"t", "y", "p", "e", "o", "f">>, 1, Len(args)), <<>>)
    ELSE EvalOk(ValString(CASE args[1].kind = "String" -> <<"s", "t", "r", "i", "n", "g">>
                            [] args[1].kind = "Number" -> <<"n", "u", "m", "b", "e", "r">>
                            [] args[1].kind = "Boolean" -> <<"b", "o", "o", "l", "e", "a", "n">>
                            [] args[1].kind = "Null" -> <<"n", "u", "l", "l">>),
                <<>>)

(***************************************************************************)
(* Expression evaluation.  The output of the calls evaluated so far is     *)
(* carried along, also into an error result: it has already been written.  *)
(***************************************************************************)
RECURSIVE evaluate_expression(_, _)
RECURSIVE call_function(_, _, _)
RECURSIVE evaluate_arguments(_, _, _, _)
RECURSIVE ArgumentEvaluated(_, _, _, _, _)

evaluate_expression(variables, expression) ==
    CASE expression.type = "Literal" -> EvalOk(literal_to_value(expression.lit), <<>>)
      [] expression.type = "Identifier" -> get(variables, expression.name)
      [] expression.type = "FunctionCall" ->
           call_function(variables, expression.name, expression.args)

\* The loop `for arg in args { arg_values.push(self.evaluate_expression(arg)?) }`.
evaluate_arguments(variables, args, arg_values, out) ==
    IF args = <<>> THEN EvalOk(arg_values, out)
    ELSE ArgumentEvaluated(variables, Tail(args), arg_values, out,
                           evaluate_expression(variables, Head(args)))

ArgumentEvaluated(variables, rest, arg_values, out, r) ==
    IF ~r.ok THEN EvalErr(r.err, out \o r.out)
    ELSE evaluate_arguments(variables, rest, Append(arg_values, r.val), out \o r.out)

\* match name.as_str()
\* A dispatch in which a call of an unknown function yields Null.
Dispatch_lenient(name, arg_values) ==
    CASE name = <<"p", "r", "i", "n", "t">> -> builtin_print(arg_values)
      [] name = <<"p", "r", "i", "n", "t", "l", "n">> -> builtin_println(arg_values)
      [] name = <<"t", "y", "p", "e", "o", "f">> -> builtin_typeof(arg_values)
      [] OTHER -> EvalOk(ValNull, <<>>)

Dispatch(name, arg_values) ==
    CASE name = <<"p", "r", "i", "n", "t">> -> builtin_print(arg_values)
      [] name = <<"p", "r", "i", "n", "t", "l", "n">> -> builtin_println(arg_values)
      [] name = <<"t", "y", "p", "e", "o", "f">> -> builtin_typeof(arg_values)
      [] OTHER -> EvalErr(UndefinedFunction(name), <<>>)

\* The result of the builtin, after the output of the arguments.
Dispatched(out, r) ==
    IF r.ok THEN EvalOk(r.val, out \o r.out) ELSE EvalErr(r.err, out \o r.out)

ArgumentsEvaluated(name, a) ==
    IF ~a.ok THEN a ELSE Dispatched(a.out, Dispatch(name, a.val))

\* call_function that looks the name up before it evaluates the arguments.
call_function_name_first(variables, name, args) ==
    IF name \notin {<<"p", "r", "i", "n", "t">>, <<"p", "r", "i", "n", "t", "l", "n">>,
                    <<"t", "y", "p", "e", "o", "f">>}
    THEN EvalErr(UndefinedFunction(name), <<>>)
    ELSE ArgumentsEvaluated(name, evaluate_arguments(variables, args, <<>>, <<>>))

call_function(variables, name, args) ==
    ArgumentsEvaluated(name, evaluate_arguments(variables, args, <<>>, <<>>))

(***************************************************************************)
(* The source texts explored: the programs of the repository's tests and   *)
(* documentation, every text of at most MaxLen characters over Alphabet,   *)
(* every numeric text of at most MaxNumLen characters, alone and as the    *)
(* initializer of a declaration, every word of at most MaxWordLen          *)
(* characters, and every program of at most MaxStmts simple statements.    *)
(***************************************************************************)
Alphabet == {" ", ";", "+", "-", ".", "1", "a", "@", "\""}

NumAlphabet == {"-", ".", "0", "5"}

SeqsUpTo(S, n) == UNION {[1..k -> S] : k \in 0..n}

Texts == SeqsUpTo(Alphabet, MaxLen)

NumTexts == SeqsUpTo(NumAlphabet, MaxNumLen)

\* var x = <n>;
DeclX(n) == <<"v", "a", "r", " ", "x", " ", "=", " ">> \o n \o <<";">>

\* var a = 1 + 2 * 3;
SrcPrecedenceParse ==
    <<"v", "a", "r", " ", "a", " ", "=", " ", "1", " ", "+", " ", "2", " ",
      "*", " ", "3", ";">>

\* var complex = 2 + 3 * 4;
SrcPrecedenceRun ==
    <<"v", "a", "r", " ", "c", "o", "m", "p", "l", "e", "x", " ", "=", " ",
      "2", " ", "+", " ", "3", " ", "*", " ", "4", ";">>

\* var nested = (2 + 3) * 4;
SrcNested ==
    <<"v", "a", "r", " ", "n", "e", "s", "t", "e", "d", " ", "=", " ", "(",
      "2", " ", "+", " ", "3", ")", " ", "*", " ", "4", ";">>

\* var a = 10; var b = 3; var c = 2; var r = a - b - c;
SrcLeftAssoc ==
    <<"v", "a", "r", " ", "a", " ", "=", " ", "1", "0", ";", " ", "v", "a",
      "r", " ", "b", " ", "=", " ", "3", ";", " ", "v", "a", "r", " ", "c",
      " ", "=", " ", "2", ";", " ", "v", "a", "r", " ", "r", " ", "=", " ",
      "a", " ", "-", " ", "b", " ", "-", " ", "c", ";">>

\* var x = 1 / 0;
SrcDivZero ==
    <<"v", "a", "r", " ", "x", " ", "=", " ", "1", " ", "/", " ", "0", ";">>

\* var a = "hi" + 1;
SrcTypeErrorAdd ==
    <<"v", "a", "r", " ", "a", " ", "=", " ", "\"", "h", "i", "\"", " ",
      "+", " ", "1", ";">>

\* var s = "hello"; var n = 1; var bad = s - n;
SrcTypeErrorSub ==
    <<"v", "a", "r", " ", "s", " ", "=", " ", "\"", "h", "e", "l", "l", "o",
      "\"", ";", " ", "v", "a", "r", " ", "n", " ", "=", " ", "1", ";", " ",
      "v", "a", "r", " ", "b", "a", "d", " ", "=", " ", "s", " ", "-", " ",
      "n", ";">>

\* var g = "Hi " + "there";
SrcConcat ==
    <<"v", "a", "r", " ", "g", " ", "=", " ", "\"", "H", "i", " ", "\"",
      " ", "+", " ", "\"", "t", "h", "e", "r", "e", "\"", ";">>

\* var s = "Hello"; var t = "World"; var greeting = s + ", " + t + "!";
SrcGreeting ==
    <<"v", "a", "r", " ", "s", " ", "=", " ", "\"", "H", "e", "l", "l", "o",
      "\"", ";", " ", "v", "a", "r", " ", "t", " ", "=", " ", "\"", "W",
      "o", "r", "l", "d", "\"", ";", " ", "v", "a", "r", " ", "g", "r", "e",
      "e", "t", "i", "n", "g", " ", "=", " ", "s", " ", "+", " ", "\"", ",",
      " ", "\"", " ", "+", " ", "t", " ", "+", " ", "\"", "!", "\"", ";">>

\* = ; ( ) ,
SrcSingleTokens ==
    <<"=", " ", ";", " ", "(", " ", ")", " ", ",">>

\* = ; ( ) , + * /
SrcEightChars ==
    <<"=", " ", ";", " ", "(", " ", ")", " ", ",", " ", "+", " ", "*", " ",
      "/">>

\* 5-3
SrcFiveMinusThree ==
    <<"5", "-", "3">>

\* -42 -3.14
SrcNegativeNumbers ==
    <<"-", "4", "2", " ", "-", "3", ".", "1", "4">>

\* a - b
SrcSubtractIdents ==
    <<"a", " ", "-", " ", "b">>

\* 0.5 .5 5.
SrcDecimalNumbers ==
    <<"0", ".", "5", " ", ".", "5", " ", "5", ".">>

\* var a = -0.5; var b = .25; var c = 10.; var d = -123;
SrcNumberEdgeCases ==
    <<"v", "a", "r", " ", "a", " ", "=", " ", "-", "0", ".", "5", ";", " ",
      "v", "a", "r", " ", "b", " ", "=", " ", ".", "2", "5", ";", " ", "v",
      "a", "r", " ", "c", " ", "=", " ", "1", "0", ".", ";", " ", "v", "a",
      "r", " ", "d", " ", "=", " ", "-", "1", "2", "3", ";">>

\* var @ x # = $ 42 % ;
SrcInvalidChars ==
    <<"v", "a", "r", " ", "@", " ", "x", " ", "#", " ", "=", " ", "$", " ",
      "4", "2", " ", "%", " ", ";">>

\* var x = 42 ;
SrcValidChars ==
    <<"v", "a", "r", " ", "x", " ", "=", " ", "4", "2", " ", ";">>

\* var x = 42;
SrcVarDecl ==
    <<"v", "a", "r", " ", "x", " ", "=", " ", "4", "2", ";">>

\* var x = 1;\nprintln("value:", x);\nprint("no newline", 4.28, true);\nvar t = typeof(x);
SrcBuiltins ==
    <<"v", "a", "r", " ", "x", " ", "=", " ", "1", ";", "\n", "p", "r", "i",
      "n", "t", "l", "n", "(", "\"", "v", "a", "l", "u", "e", ":", "\"",
      ",", " ", "x", ")", ";", "\n", "p", "r", "i", "n", "t", "(", "\"",
      "n", "o", " ", "n", "e", "w", "l", "i", "n", "e", "\"", ",", " ", "4",
      ".", "2", "8", ",", " ", "t", "r", "u", "e", ")", ";", "\n", "v", "a",
      "r", " ", "t", " ", "=", " ", "t", "y", "p", "e", "o", "f", "(", "x",
      ")", ";">>

\* var y = x;
SrcUndefinedVariable ==
    <<"v", "a", "r", " ", "y", " ", "=", " ", "x", ";">>

\* foo(1);
SrcUndefinedFunction ==
    <<"f", "o", "o", "(", "1", ")", ";">>

\* var t = typeof();
SrcArity ==
    <<"v", "a", "r", " ", "t", " ", "=", " ", "t", "y", "p", "e", "o", "f",
      "(", ")", ";">>

\* print(hello;
SrcUnclosedCall ==
    <<"p", "r", "i", "n", "t", "(", "h", "e", "l", "l", "o", ";">>

\* var = 42;
SrcMissingIdentifier ==
    <<"v", "a", "r", " ", "=", " ", "4", "2", ";">>

\* var x 42;
SrcMissingEquals ==
    <<"v", "a", "r", " ", "x", " ", "4", "2", ";">>

\* "hello" "world" ""
SrcStringLiterals ==
    <<"\"", "h", "e", "l", "l", "o", "\"", " ", "\"", "w", "o", "r", "l",
      "d", "\"", " ", "\"", "\"">>

\* "hello world"
SrcStringWithSpaces ==
    <<"\"", "h", "e", "l", "l", "o", " ", "w", "o", "r", "l", "d", "\"">>

\* "unterminated
SrcUnterminatedString ==
    <<"\"", "u", "n", "t", "e", "r", "m", "i", "n", "a", "t", "e", "d">>

\* "a\"b"
SrcEscapedQuote ==
    <<"\"", "a", "\\", "\"", "b", "\"">>

\* var true false
SrcKeywords ==
    <<"v", "a", "r", " ", "t", "r", "u", "e", " ", "f", "a", "l", "s", "e">>

\* variable Var true1 _private
SrcNearKeywords ==
    <<"v", "a", "r", "i", "a", "b", "l", "e", " ", "V", "a", "r", " ", "t",
      "r", "u", "e", "1", " ", "_", "p", "r", "i", "v", "a", "t", "e">>

\* myVar x test123 _private
SrcIdentifiers ==
    <<"m", "y", "V", "a", "r", " ", "x", " ", "t", "e", "s", "t", "1", "2",
      "3", " ", "_", "p", "r", "i", "v", "a", "t", "e">>

\* MyVar myVar MYVAR
SrcMixedCase ==
    <<"M", "y", "V", "a", "r", " ", "m", "y", "V", "a", "r", " ", "M", "Y",
      "V", "A", "R">>

\* var a = 1;\nvar a = 2;
SrcRedeclare ==
    <<"v", "a", "r", " ", "a", " ", "=", " ", "1", ";", "\n", "v", "a", "r",
      " ", "a", " ", "=", " ", "2", ";">>

\* var y = x; var x = 1;
SrcNoHoisting ==
    <<"v", "a", "r", " ", "y", " ", "=", " ", "x", ";", " ", "v", "a", "r",
      " ", "x", " ", "=", " ", "1", ";">>

\* var x = x;
SrcSelfReference ==
    <<"v", "a", "r", " ", "x", " ", "=", " ", "x", ";">>

\* var foo = 1; foo(1);
SrcShadowedFunction ==
    <<"v", "a", "r", " ", "f", "o", "o", " ", "=", " ", "1", ";", " ", "f",
      "o", "o", "(", "1", ")", ";">>

\* unknown_function();
SrcUnknownFunction ==
    <<"u", "n", "k", "n", "o", "w", "n", "_", "f", "u", "n", "c", "t", "i",
      "o", "n", "(", ")", ";">>

\* var s = "x";\nvar n = 1;\nvar b = true;\nvar ts = typeof(s);\nvar tn = typeof(n);\nvar tb = typeof(b);\nvar tz = typeof(print());
SrcTypeof ==
    <<"v", "a", "r", " ", "s", " ", "=", " ", "\"", "x", "\"", ";", "\n",
      "v", "a", "r", " ", "n", " ", "=", " ", "1", ";", "\n", "v", "a", "r",
      " ", "b", " ", "=", " ", "t", "r", "u", "e", ";", "\n", "v", "a", "r",
      " ", "t", "s", " ", "=", " ", "t", "y", "p", "e", "o", "f", "(", "s",
      ")", ";", "\n", "v", "a", "r", " ", "t", "n", " ", "=", " ", "t", "y",
      "p", "e", "o", "f", "(", "n", ")", ";", "\n", "v", "a", "r", " ", "t",
      "b", " ", "=", " ", "t", "y", "p", "e", "o", "f", "(", "b", ")", ";",
      "\n", "v", "a", "r", " ", "t", "z", " ", "=", " ", "t", "y", "p", "e",
      "o", "f", "(", "p", "r", "i", "n", "t", "(", ")", ")", ";">>

\* typeof();
SrcTypeofNoArgs ==
    <<"t", "y", "p", "e", "o", "f", "(", ")", ";">>

\* typeof(1, 2);
SrcTypeofTwoArgs ==
    <<"t", "y", "p", "e", "o", "f", "(", "1", ",", " ", "2", ")", ";">>

\* var a = 1; print("x"); var b = c; var d = 2; print("y");
SrcFailFast ==
    <<"v", "a", "r", " ", "a", " ", "=", " ", "1", ";", " ", "p", "r", "i",
      "n", "t", "(", "\"", "x", "\"", ")", ";", " ", "v", "a", "r", " ",
      "b", " ", "=", " ", "c", ";", " ", "v", "a", "r", " ", "d", " ", "=",
      " ", "2", ";", " ", "p", "r", "i", "n", "t", "(", "\"", "y", "\"",
      ")", ";">>

\* var x = 42
SrcMissingSemicolon ==
    <<"v", "a", "r", " ", "x", " ", "=", " ", "4", "2">>

\* var x = );
SrcInvalidExpressionStart ==
    <<"v", "a", "r", " ", "x", " ", "=", " ", ")", ";">>

\*    	\n  
SrcWhitespaceOnly ==
    <<" ", " ", " ", "	", "\n", " ", " ">>

\* var x = 10;\nvar y = "test";\nprint(x, y);
SrcMultipleStatements ==
    <<"v", "a", "r", " ", "x", " ", "=", " ", "1", "0", ";", "\n", "v", "a",
      "r", " ", "y", " ", "=", " ", "\"", "t", "e", "s", "t", "\"", ";",
      "\n", "p", "r", "i", "n", "t", "(", "x", ",", " ", "y", ")", ";">>

\* var a = 1; print(a); var b = ;
SrcErrorAfterStatements ==
    <<"v", "a", "r", " ", "a", " ", "=", " ", "1", ";", " ", "p", "r", "i",
      "n", "t", "(", "a", ")", ";", " ", "v", "a", "r", " ", "b", " ", "=",
      " ", ";">>

\* var a = 1;
StmtDeclareOne ==
    <<"v", "a", "r", " ", "a", " ", "=", " ", "1", ";">>

\* var a = 2;
StmtDeclareTwo ==
    <<"v", "a", "r", " ", "a", " ", "=", " ", "2", ";">>

\* var b = a;
StmtCopyToB ==
    <<"v", "a", "r", " ", "b", " ", "=", " ", "a", ";">>

\* var a = b;
StmtCopyToA ==
    <<"v", "a", "r", " ", "a", " ", "=", " ", "b", ";">>

\* print(a);
StmtPrint ==
    <<"p", "r", "i", "n", "t", "(", "a", ")", ";">>

\* foo(a);
StmtUnknownCall ==
    <<"f", "o", "o", "(", "a", ")", ";">>

\* var b = typeof(a);
StmtTypeof ==
    <<"v", "a", "r", " ", "b", " ", "=", " ", "t", "y", "p", "e", "o", "f",
      "(", "a", ")", ";">>

\* typeof(a, 1);
StmtBadArity ==
    <<"t", "y", "p", "e", "o", "f", "(", "a", ",", " ", "1", ")", ";">>

\* var r = print("a", 1); var s = println(); print(); println(r, s, true);
SrcPrintForms ==
    <<"v", "a", "r", " ", "r", " ", "=", " ", "p", "r", "i", "n", "t", "(",
      "\"", "a", "\"", ",", " ", "1", ")", ";", " ", "v", "a", "r", " ",
      "s", " ", "=", " ", "p", "r", "i", "n", "t", "l", "n", "(", ")", ";",
      " ", "p", "r", "i", "n", "t", "(", ")", ";", " ", "p", "r", "i", "n",
      "t", "l", "n", "(", "r", ",", " ", "s", ",", " ", "t", "r", "u", "e",
      ")", ";">>

\* println("hi");
SrcPrintlnHi ==
    <<"p", "r", "i", "n", "t", "l", "n", "(", "\"", "h", "i", "\"", ")", ";">>

\* println();
SrcPrintlnEmpty ==
    <<"p", "r", "i", "n", "t", "l", "n", "(", ")", ";">>

\* var y = -x;
SrcNegatedIdentifier ==
    <<"v", "a", "r", " ", "y", " ", "=", " ", "-", "x", ";">>

\* print();
SrcCallNoArgs ==
    <<"p", "r", "i", "n", "t", "(", ")", ";">>

\* print("hello", 42, true);
SrcCallWithArgs ==
    <<"p", "r", "i", "n", "t", "(", "\"", "h", "e", "l", "l", "o", "\"",
      ",", " ", "4", "2", ",", " ", "t", "r", "u", "e", ")", ";">>

\* print(x, y);
SrcCallWithIdentifierArgs ==
    <<"p", "r", "i", "n", "t", "(", "x", ",", " ", "y", ")", ";">>

\* f(g(x), h());
SrcNestedCalls ==
    <<"f", "(", "g", "(", "x", ")", ",", " ", "h", "(", ")", ")", ";">>

\* x = 1;
SrcIdentifierThenEquals ==
    <<"x", " ", "=", " ", "1", ";">>

\* var x = y + 1;
SrcUndefinedOperand ==
    <<"v", "a", "r", " ", "x", " ", "=", " ", "y", " ", "+", " ", "1", ";">>

\* foo(x);
SrcUnknownCallUndefinedArg ==
    <<"f", "o", "o", "(", "x", ")", ";">>

\* typeof(x, 1);
SrcTypeofUndefinedArg ==
    <<"t", "y", "p", "e", "o", "f", "(", "x", ",", " ", "1", ")", ";">>

\* print("a", x);
SrcPrintUndefinedArg ==
    <<"p", "r", "i", "n", "t", "(", "\"", "a", "\"", ",", " ", "x", ")", ";">>

\* print(print("a"), print("b"));
SrcArgumentOrder ==
    <<"p", "r", "i", "n", "t", "(", "p", "r", "i", "n", "t", "(", "\"", "a",
      "\"", ")", ",", " ", "p", "r", "i", "n", "t", "(", "\"", "b", "\"",
      ")", ")", ";">>

\* foo(print("a"), x, y);
SrcArgumentOutputThenError ==
    <<"f", "o", "o", "(", "p", "r", "i", "n", "t", "(", "\"", "a", "\"",
      ")", ",", " ", "x", ",", " ", "y", ")", ";">>

\* var x = 1.2.3;
SrcMalformedNumber ==
    <<"v", "a", "r", " ", "x", " ", "=", " ", "1", ".", "2", ".", "3", ";">>

\* var x = -.;
SrcMalformedSign ==
    <<"v", "a", "r", " ", "x", " ", "=", " ", "-", ".", ";">>

Programs ==
    {SrcPrecedenceParse, SrcPrecedenceRun, SrcNested, SrcLeftAssoc, SrcDivZero,
     SrcTypeErrorAdd, SrcTypeErrorSub, SrcConcat, SrcGreeting, SrcSingleTokens,
     SrcEightChars, SrcFiveMinusThree, SrcNegativeNumbers, SrcSubtractIdents,
     SrcDecimalNumbers, SrcNumberEdgeCases, SrcInvalidChars, SrcValidChars,
     SrcVarDecl, SrcBuiltins, SrcUndefinedVariable, SrcUndefinedFunction,
     SrcArity, SrcUnclosedCall, SrcMissingIdentifier, SrcMissingEquals,
     SrcStringLiterals, SrcStringWithSpaces, SrcUnterminatedString,
     SrcEscapedQuote, SrcKeywords, SrcNearKeywords, SrcIdentifiers,
     SrcMixedCase, SrcRedeclare, SrcNoHoisting, SrcSelfReference,
     SrcShadowedFunction, SrcUnknownFunction, SrcTypeof, SrcTypeofNoArgs,
     SrcTypeofTwoArgs, SrcFailFast, SrcMissingSemicolon,
     SrcInvalidExpressionStart, SrcWhitespaceOnly, SrcMultipleStatements,
     SrcErrorAfterStatements, SrcPrintForms, SrcPrintlnHi, SrcPrintlnEmpty,
     SrcNegatedIdentifier, SrcCallNoArgs, SrcCallWithArgs,
     SrcCallWithIdentifierArgs, SrcNestedCalls, SrcIdentifierThenEquals,
     SrcUndefinedOperand, SrcUnknownCallUndefinedArg, SrcTypeofUndefinedArg,
     SrcPrintUndefinedArg, SrcArgumentOrder, SrcArgumentOutputThenError,
     SrcMalformedNumber, SrcMalformedSign}

\* The words over WordAlphabet: keywords, their prefixes and extensions.
WordAlphabet == {"v", "a", "r", "1", "_"}

WordTexts == SeqsUpTo(WordAlphabet, MaxWordLen)

\* The programs of at most MaxStmts statements out of StatementTexts, one
\* space between two statements.
StatementTexts ==
    {StmtDeclareOne, StmtDeclareTwo, StmtCopyToB, StmtCopyToA, StmtPrint,
     StmtUnknownCall, StmtTypeof, StmtBadArity}

RECURSIVE Joined(_)
Joined(texts) ==
    IF texts = <<>> THEN <<>>
    ELSE IF Len(texts) = 1 THEN Head(texts)
    ELSE Head(texts) \o <<" ">> \o Joined(Tail(texts))

StatementPrograms == {Joined(texts) : texts \in SeqsUpTo(StatementTexts, MaxStmts)}

Sources ==
    Programs \cup Texts \cup NumTexts \cup {DeclX(n) : n \in NumTexts}
        \cup WordTexts \cup StatementPrograms

(***************************************************************************)
(* State.                                                                  *)
(*   input, pos, current_token   the Lexer: its text, cursor and token     *)
(*   tokens, extra               the token-collecting driver of the lexer  *)
(*                               tests: the tokens seen, and how often it  *)
(*                               advanced with the current token at EOF    *)
(*   statements, parse_result    Parser::parse: its local Vec and result   *)
(*   environment, todo, output,  the Interpreter: its variables, the       *)
(*   run_result                  statements interpret() still has to run,  *)
(*                               standard output, and interpret()'s result *)
(*   calls                       the calls of interpret() made on the same *)
(*                               Interpreter after the first one           *)
(*   pc                          where the pipeline is                     *)
(***************************************************************************)
VARIABLES input, pos, current_token, tokens, extra, statements, parse_result,
          environment, todo, output, run_result, calls, pc

vars == <<input, pos, current_token, tokens, extra, statements, parse_result,
          environment, todo, output, run_result, calls, pc>>

NoResult == [kind |-> "None"]

ResultOk(val) == [kind |-> "Ok", val |-> val]

ResultErr(err) == [kind |-> "Err", err |-> err]

Program(stmts) == [statements |-> stmts]

\* Lexer::new reads the first token; Interpreter::new starts with no variable.
Init ==
    /\ input \in Sources
    /\ \E lx \in {advance(input, LexerState(1, TokEOF))} :
          /\ pos = lx.pos
          /\ current_token = lx.current_token
    /\ tokens = <<current_token>>
    /\ extra = 0
    /\ statements = <<>>
    /\ parse_result = NoResult
    /\ environment = EnvironmentNew
    /\ todo = <<>>
    /\ output = <<>>
    /\ run_result = NoResult
    /\ calls = 0
    /\ pc = "lexer"

\* lexer.advance() called by a driver that collects the tokens
\* (collect_tokens, test_advance_and_current_token).
Advance ==
    /\ pc \in {"lexer", "collecting"}
    /\ current_token = TokEOF => extra < MaxExtraAdvance
    /\ \E lx \in {advance(input, LexerState(pos, current_token))} :
          /\ pos' = lx.pos
          /\ current_token' = lx.current_token
          /\ tokens' = Append(tokens, lx.current_token)
    /\ extra' = IF current_token = TokEOF THEN extra + 1 ELSE extra
    /\ pc' = "collecting"
    /\ UNCHANGED <<input, statements, parse_result, environment, todo, output,
                   run_result, calls>>

\* Parser::parse with `if` in place of `while`: it returns after one statement.
ParseStatement_once ==
    /\ pc \in {"lexer", "parsing"}
    /\ current_token # TokEOF
    /\ \E r \in {parse_statement(input, LexerState(pos, current_token))} :
          /\ pos' = r.lx.pos
          /\ current_token' = r.lx.current_token
          /\ statements' = <<>>
          /\ IF r.ok
             THEN /\ parse_result' = ResultOk(Program(Append(statements, r.val)))
                  /\ pc' = "parsed"
             ELSE /\ parse_result' = ResultErr(r.err)
                  /\ pc' = "parse_error"
    /\ UNCHANGED <<input, tokens, extra, environment, todo, output, run_result,
                   calls>>

\* One iteration of the loop of Parser::parse: parse_statement()?, push.
ParseStatement ==
    /\ pc \in {"lexer", "parsing"}
    /\ current_token # TokEOF
    /\ \E r \in {parse_statement(input, LexerState(pos, current_token))} :
          /\ pos' = r.lx.pos
          /\ current_token' = r.lx.current_token
          /\ IF r.ok
             THEN /\ statements' = Append(statements, r.val)
                  /\ parse_result' = parse_result
                  /\ pc' = "parsing"
             ELSE /\ statements' = <<>>
                  /\ parse_result' = ResultErr(r.err)
                  /\ pc' = "parse_error"
    /\ UNCHANGED <<input, tokens, extra, environment, todo, output, run_result,
                   calls>>

\* The loop of Parser::parse ends at EOF: Ok(Program { statements }).
ParseReturn ==
    /\ pc \in {"lexer", "parsing"}
    /\ current_token = TokEOF
    /\ parse_result' = ResultOk(Program(statements))
    /\ statements' = <<>>
    /\ pc' = "parsed"
    /\ UNCHANGED <<input, pos, current_token, tokens, extra, environment, todo,
                   output, run_result, calls>>

\* interpreter.interpret(program) is called with the parsed program.
Interpret ==
    /\ pc = "parsed"
    /\ todo' = parse_result.val.statements
    /\ pc' = "running"
    /\ UNCHANGED <<input, pos, current_token, tokens, extra, statements,
                   parse_result, environment, output, run_result, calls>>

\* `let val = self.evaluate_expression(value)?; self.environment.define(name, val)`
\* A declaration that binds the name to Null when its initializer fails.
Declared_null(variables, name, r) ==
    IF r.ok
    THEN [ok |-> TRUE, variables |-> define(variables, name, r.val), out |-> r.out]
    ELSE [ok |-> FALSE, err |-> r.err, variables |-> define(variables, name, ValNull),
          out |-> r.out]

Declared(variables, name, r) ==
    IF r.ok
    THEN [ok |-> TRUE, variables |-> define(variables, name, r.val), out |-> r.out]
    ELSE [ok |-> FALSE, err |-> r.err, variables |-> variables, out |-> r.out]

\* `self.evaluate_expression(expr)?; Ok(())`
\* An expression statement that keeps its value in the variable `_`.
Evaluated_last(variables, r) ==
    IF r.ok
    THEN [ok |-> TRUE, variables |-> define(variables, <<"_">>, r.val), out |-> r.out]
    ELSE [ok |-> FALSE, err |-> r.err, variables |-> variables, out |-> r.out]

Evaluated(variables, r) ==
    IF r.ok
    THEN [ok |-> TRUE, variables |-> variables, out |-> r.out]
    ELSE [ok |-> FALSE, err |-> r.err, variables |-> variables, out |-> r.out]

execute_statement(variables, statement) ==
    IF statement.type = "VarDeclaration"
    THEN Declared(variables, statement.name,
                  evaluate_expression(variables, statement.value))
    ELSE Evaluated(variables, evaluate_expression(variables, statement.expr))

\* Where interpret() is after it returned an error, or Ok: in the first call
\* or in a later one.
Failed(at) == IF at = "running" THEN "runtime_error" ELSE "again_error"

Returned(at) == IF at = "running" THEN "done" ELSE "again_done"

\* An interpret loop with per-statement recovery: the error of a failing
\* statement is noted and the remaining statements are executed.
ExecuteStatement_recover ==
    /\ pc \in {"running", "again_running"}
    /\ todo # <<>>
    /\ \E r \in {execute_statement(environment, Head(todo))} :
          /\ environment' = r.variables
          /\ output' = output \o r.out
          /\ todo' = Tail(todo)
          /\ IF r.ok
             THEN /\ run_result' = run_result
                  /\ pc' = pc
             ELSE /\ run_result' = ResultErr(r.err)
                  /\ pc' = IF Tail(todo) = <<>> THEN Failed(pc) ELSE pc
    /\ UNCHANGED <<input, pos, current_token, tokens, extra, statements,
                   parse_result, calls>>

\* One iteration of the loop of Interpreter::interpret: execute_statement()?.
ExecuteStatement ==
    /\ pc \in {"running", "again_running"}
    /\ todo # <<>>
    /\ \E r \in {execute_statement(environment, Head(todo))} :
          /\ environment' = r.variables
          /\ output' = output \o r.out
          /\ IF r.ok
             THEN /\ todo' = Tail(todo)
                  /\ run_result' = run_result
                  /\ pc' = pc
             ELSE /\ todo' = <<>>
                  /\ run_result' = ResultErr(r.err)
                  /\ pc' = Failed(pc)
    /\ UNCHANGED <<input, pos, current_token, tokens, extra, statements,
                   parse_result, calls>>

\* The loop of Interpreter::interpret ends: Ok(()).
InterpretReturn ==
    /\ pc \in {"running", "again_running"}
    /\ todo = <<>>
    /\ run_result' = ResultOk(TRUE)
    /\ pc' = Returned(pc)
    /\ UNCHANGED <<input, pos, current_token, tokens, extra, statements,
                   parse_result, environment, todo, output, calls>>

\* The one-statement sources given to the later calls of interpret(), and
\* the first programs after which later calls are explored.
LaterTexts == {StmtCopyToB, StmtCopyToA, StmtPrint, StmtDeclareTwo}

FirstPrograms == Programs \cup StatementPrograms

\* Parser::new(Lexer::new(text)).parse() of a text of one statement.
LaterProgram(r) == Program(<<r.val>>)

\* An interpret call that starts from an empty Environment.
InterpretAgain_fresh ==
    /\ pc \in {"done", "runtime_error", "again_done", "again_error"}
    /\ calls < MaxLaterCalls
    /\ input \in FirstPrograms
    /\ \E text \in LaterTexts :
          \E r \in {parse_statement(text, advance(text, LexerState(1, TokEOF)))} :
             todo' = LaterProgram(r).statements
    /\ environment' = EnvironmentNew
    /\ run_result' = NoResult
    /\ calls' = calls + 1
    /\ pc' = "again_running"
    /\ UNCHANGED <<input, pos, current_token, tokens, extra, statements,
                   parse_result, output>>

\* interpreter.interpret(program) is called again on the same Interpreter,
\* with the program of another source.
InterpretAgain ==
    /\ pc \in {"done", "runtime_error", "again_done", "again_error"}
    /\ calls < MaxLaterCalls
    /\ input \in FirstPrograms
    /\ \E text \in LaterTexts :
          \E r \in {parse_statement(text, advance(text, LexerState(1, TokEOF)))} :
             todo' = LaterProgram(r).statements
    /\ run_result' = NoResult
    /\ calls' = calls + 1
    /\ pc' = "again_running"
    /\ UNCHANGED <<input, pos, current_token, tokens, extra, statements,
                   parse_result, environment, output>>

Next ==
    \/ Advance
    \/ ParseStatement
    \/ ParseReturn
    \/ Interpret
    \/ ExecuteStatement
    \/ InterpretReturn
    \/ InterpretAgain

Spec == Init /\ [][Next]_vars

(***************************************************************************)
(* Vocabulary of the properties.                                           *)
(***************************************************************************)
ParseFinished == pc \in {"parsed", "parse_error", "running", "done", "runtime_error"}

PipelineFinished == pc \in {"parse_error", "done", "runtime_error"}

\* The driver has collected every token up to and including the first EOF.
TokensCollected == pc \in {"lexer", "collecting"} /\ current_token = TokEOF /\ extra = 0

Bound(name, value) == name \in DOMAIN environment /\ environment[name] = value

Unbound(name) == name \notin DOMAIN environment

Num(n) == NumberLit(n, 0)

\* The binary-operation node of the tests: Expression::Binary { left, op, right }.
ExprBinary(left, op, right) ==
    [type |-> "Binary", left |-> left, op |-> op, right |-> right]

RuntimeFailure(type) == run_result.kind = "Err" /\ run_result.err.type = type

(***************************************************************************)
(* C1: multiplicative operators bind tighter than additive ones and        *)
(* parentheses override both: `var a = 1 + 2 * 3;` parses to one           *)
(* declaration of a with value Binary{Add, 1, Binary{Multiply, 2, 3}},     *)
(* `var complex = 2 + 3 * 4;` leaves complex bound to 14, and              *)
(* `var nested = (2 + 3) * 4;` leaves nested bound to 20.                  *)
(***************************************************************************)
C1_Precedence ==
    /\ (input = SrcPrecedenceParse /\ ParseFinished) =>
          /\ parse_result.kind = "Ok"
          /\ parse_result.val.statements =
               <<StmtVarDeclaration(<<"a">>,
                    ExprBinary(ExprLiteral(Num(1)), "Add",
                               ExprBinary(ExprLiteral(Num(2)), "Multiply",
                                          ExprLiteral(Num(3)))))>>
    /\ (input = SrcPrecedenceRun /\ PipelineFinished) =>
          Bound(<<"c", "o", "m", "p", "l", "e", "x">>, Num(14))
    /\ (input = SrcNested /\ PipelineFinished) =>
          Bound(<<"n", "e", "s", "t", "e", "d">>, Num(20))

(***************************************************************************)
(* C2: binary operators of equal precedence are left-associative: with     *)
(* a = 10, b = 3, c = 2 the statement `var r = a - b - c;` binds r to      *)
(* (a-b)-c = 5, never to a-(b-c) = 9.                                      *)
(***************************************************************************)
C2_LeftAssociative ==
    (input = SrcLeftAssoc /\ PipelineFinished) =>
        /\ Bound(<<"r">>, Num(5))
        /\ ~Bound(<<"r">>, Num(9))

(***************************************************************************)
(* C3: `var x = 1 / 0;` makes interpret return a TypeError and leaves x    *)
(* unbound.                                                                *)
(***************************************************************************)
C3_DivisionByZero ==
    (input = SrcDivZero /\ PipelineFinished) =>
        /\ RuntimeFailure("TypeError")
        /\ Unbound(<<"x">>)

(***************************************************************************)
(* C4: a binary operation on operands that are neither number-with-number  *)
(* nor string-with-string (for +) parses and then fails at run time with   *)
(* a TypeError, leaving the declared variable unbound: `var a = "hi" + 1;` *)
(* and `var s = "hello"; var n = 1; var bad = s - n;`.                     *)
(***************************************************************************)
C4_OperandTypeError ==
    /\ (input = SrcTypeErrorAdd /\ PipelineFinished) =>
          /\ parse_result.kind = "Ok"
          /\ RuntimeFailure("TypeError")
          /\ Unbound(<<"a">>)
    /\ (input = SrcTypeErrorSub /\ PipelineFinished) =>
          /\ parse_result.kind = "Ok"
          /\ RuntimeFailure("TypeError")
          /\ Unbound(<<"b", "a", "d">>)

(***************************************************************************)
(* C5: + on two strings concatenates them left to right:                   *)
(* `var g = "Hi " + "there";` binds g to "Hi there", and with s = "Hello", *)
(* t = "World", `var greeting = s + ", " + t + "!";` binds greeting to     *)
(* "Hello, World!".                                                        *)
(***************************************************************************)
C5_Concatenation ==
    /\ (input = SrcConcat /\ PipelineFinished) =>
          Bound(<<"g">>, ValString(<<"H", "i", " ", "t", "h", "e", "r", "e">>))
    /\ (input = SrcGreeting /\ PipelineFinished) =>
          Bound(<<"g", "r", "e", "e", "t", "i", "n", "g">>,
                ValString(<<"H", "e", "l", "l", "o", ",", " ",
                            "W", "o", "r", "l", "d", "!">>))

(***************************************************************************)
(* C6: outside a string literal each occurrence of = ; ( ) , + * / makes   *)
(* the tokenizer emit exactly one token of the corresponding kind; none    *)
(* of them is skipped without a token.  Stated for the texts without a     *)
(* string literal: the punctuation tokens collected up to EOF are, in      *)
(* order, the kinds of the punctuation characters of the text.             *)
(***************************************************************************)
PunctuationChars == {"=", ";", "(", ")", ",", "+", "*", "/"}

PunctuationKind(ch) ==
    CASE ch = "=" -> "Equals" [] ch = ";" -> "SemiColon" [] ch = "(" -> "LeftParen"
      [] ch = ")" -> "RightParen" [] ch = "," -> "Comma" [] ch = "+" -> "Plus"
      [] ch = "*" -> "Star" [] ch = "/" -> "Slash"

PunctuationKinds ==
    {"Equals", "SemiColon", "LeftParen", "RightParen", "Comma", "Plus", "Star", "Slash"}

NoStringLiteral(text) == \A i \in 1..Len(text) : text[i] # "\""

KindsOfChars(text) ==
    LET IsPunct(ch) == ch \in PunctuationChars
        sel == SelectSeq(text, IsPunct)
    IN  [i \in 1..Len(sel) |-> PunctuationKind(sel[i])]

KindsOfTokens(toks) ==
    LET IsPunct(t) == t.type \in PunctuationKinds
        sel == SelectSeq(toks, IsPunct)
    IN  [i \in 1..Len(sel) |-> sel[i].type]

C6_SingleCharTokens ==
    (TokensCollected /\ NoStringLiteral(input)) =>
        KindsOfTokens(tokens) = KindsOfChars(input)

(***************************************************************************)
(* C7: `-` is tokenized by one character of lookahead: before a digit or   *)
(* `.` it is the sign of one numeric literal (`5-3` gives Number(5),       *)
(* Number(-3)); in every other case the tokenizer emits a subtraction      *)
(* operator token.  The second half is stated for the texts with no        *)
(* string literal, digit or `.`: as many subtraction tokens are collected  *)
(* as the text has `-` characters.                                         *)
(***************************************************************************)
NoNumericText(text) == \A i \in 1..Len(text) : text[i] \notin Digits \cup {"."}

C7_MinusLookahead ==
    /\ (TokensCollected /\ input = SrcFiveMinusThree) =>
          tokens = <<TokLiteral(Num(5)), TokLiteral(Num(-3)), TokEOF>>
    /\ (TokensCollected /\ NoStringLiteral(input) /\ NoNumericText(input)) =>
          LET IsMinus(t) == t.type = "Minus"
          IN  Len(SelectSeq(tokens, IsMinus)) = CountOf(input, {"-"})

(***************************************************************************)
(* C8: for every well-formed numeric lexeme (optional leading `-`, digits, *)
(* at most one `.`, at least one digit) the tokenizer emits exactly one    *)
(* Number literal whose value is the decimal value of the whole lexeme,    *)
(* and the parser carries that literal unchanged into the AST.             *)
(***************************************************************************)
WellFormedNumber(text) ==
    LET body == IF text # <<>> /\ Head(text) = "-" THEN Tail(text) ELSE text
    IN  /\ \A i \in 1..Len(body) : body[i] \in Digits \cup {"."}
        /\ Cardinality({i \in 1..Len(body) : body[i] = "."}) <= 1
        /\ \E i \in 1..Len(body) : body[i] \in Digits

\* The decimal value of a lexeme as the fraction num / 10^exp.
DecimalValue(text) ==
    LET neg  == Head(text) = "-"
        body == IF neg THEN Tail(text) ELSE text
        dots == {i \in 1..Len(body) : body[i] = "."}
        dot  == IF dots = {} THEN Len(body) + 1 ELSE CHOOSE i \in dots : TRUE
        whole == SubSeq(body, 1, dot - 1)
        frac  == SubSeq(body, dot + 1, Len(body))
        IntOf(ds) == LET Sum[i \in 0..Len(ds)] ==
                             IF i = 0 THEN 0
                             ELSE Sum[i - 1] + DigitValue(ds[i]) * Pow10(Len(ds) - i)
                     IN  Sum[Len(ds)]
        mag  == IntOf(whole) * Pow10(Len(frac)) + IntOf(frac)
    IN  [num |-> IF neg THEN 0 - mag ELSE mag, exp |-> Len(frac)]

HasValue(lit, text) ==
    /\ lit.kind = "Number"
    /\ lit.mant * Pow10(DecimalValue(text).exp) = DecimalValue(text).num * Pow10(lit.scale)

DeclXPrefix == <<"v", "a", "r", " ", "x", " ", "=", " ">>

IsDeclX(text) ==
    /\ Len(text) > Len(DeclXPrefix)
    /\ SubSeq(text, 1, Len(DeclXPrefix)) = DeclXPrefix
    /\ text[Len(text)] = ";"

InitializerOf(text) == SubSeq(text, Len(DeclXPrefix) + 1, Len(text) - 1)

NumberTokens(toks) ==
    LET IsNumber(t) == t.type = "Literal" /\ t.lit.kind = "Number"
    IN  SelectSeq(toks, IsNumber)

C8_NumericLiterals ==
    /\ (pc \in {"lexer", "collecting"} /\ WellFormedNumber(input)) =>
          /\ tokens[1].type = "Literal"
          /\ HasValue(tokens[1].lit, input)
          /\ \A i \in 2..Len(tokens) : tokens[i] = TokEOF
    /\ (TokensCollected /\ input = SrcNumberEdgeCases) =>
          NumberTokens(tokens) =
             <<TokLiteral(NumberLit(-5, 1)), TokLiteral(NumberLit(25, 2)),
               TokLiteral(Num(10)), TokLiteral(Num(-123))>>
    /\ (ParseFinished /\ IsDeclX(input) /\ WellFormedNumber(InitializerOf(input))) =>
          /\ parse_result.kind = "Ok"
          /\ Len(parse_result.val.statements) = 1
          /\ LET stmt == parse_result.val.statements[1]
             IN  /\ stmt.type = "VarDeclaration"
                 /\ stmt.name = <<"x">>
                 /\ stmt.value.type = "Literal"
                 /\ HasValue(stmt.value.lit, InitializerOf(input))

C8_Witness ==
    /\ pc = "parsed"
    /\ input = DeclX(<<"-", ".", "5">>)
    /\ parse_result.val.statements =
         <<StmtVarDeclaration(<<"x">>, ExprLiteral(NumberLit(-5, 1)))>>

(***************************************************************************)
(* C9: characters that start no token are transparent: with any number of  *)
(* them inserted between whitespace-separated tokens the token sequence    *)
(* is the one of the text without them.  Stated for the texts without a    *)
(* string literal in which every such character has only whitespace or     *)
(* such characters as neighbours.                                          *)
(***************************************************************************)
\* The characters that start a token, the operators + * / of the language
\* description included, so that the statement does not depend on them.
TokenStartChars ==
    {"=", ";", "(", ")", ",", "+", "*", "/", "-", ".", "_", "\""} \cup Digits \cup Letters

IsJunk(ch) == ch \notin TokenStartChars \cup Whitespace

JunkBetweenTokens(text) ==
    \A i \in 1..Len(text) :
        IsJunk(text[i]) =>
            /\ i > 1 => (IsJunk(text[i - 1]) \/ is_whitespace(text[i - 1]))
            /\ i < Len(text) => (IsJunk(text[i + 1]) \/ is_whitespace(text[i + 1]))

WithoutJunk(text) ==
    LET Keep(ch) == ~IsJunk(ch)
    IN  SelectSeq(text, Keep)

\* collect_tokens of the lexer tests: the tokens up to and including EOF.
RECURSIVE collect_tokens(_, _)
collect_tokens(text, from) ==
    LET r == next_token(text, from)
    IN  IF r.tok = TokEOF THEN <<r.tok>>
        ELSE <<r.tok>> \o collect_tokens(text, r.pos)

C9_JunkTransparent ==
    /\ (TokensCollected /\ NoStringLiteral(input) /\ JunkBetweenTokens(input)) =>
          tokens = collect_tokens(WithoutJunk(input), 1)
    /\ (TokensCollected /\ input = SrcInvalidChars) =>
          tokens = collect_tokens(SrcValidChars, 1)

C9_Witness ==
    /\ TokensCollected
    /\ input = SrcInvalidChars
    /\ tokens = <<TokVar, TokIdentifier(<<"x">>), TokEquals, TokLiteral(Num(42)),
                  TokSemiColon, TokEOF>>

(***************************************************************************)
(* C10: end of input is stable: once the current token is EOF, every       *)
(* further step of the lexer leaves it EOF.                                *)
(***************************************************************************)
C10_EofStable == [][current_token = TokEOF => current_token' = TokEOF]_vars

C10_Witness ==
    /\ pc = "collecting"
    /\ extra = MaxExtraAdvance
    /\ Len(tokens) > MaxExtraAdvance + 1
    /\ tokens[1] # TokEOF
    /\ current_token = TokEOF

(***************************************************************************)
(* C11: a `"` starts a string literal whose content is every character up  *)
(* to the next `"`, verbatim: a backslash is an ordinary character and     *)
(* escapes nothing.  A literal that is never closed is one String literal  *)
(* holding everything up to the end of input, followed by EOF.             *)
(***************************************************************************)
\* The index of the first `"` of text after index from, or Len(text) + 1.
ClosingQuote(text, from) ==
    LET quotes == {i \in (from + 1)..Len(text) : text[i] = "\""}
    IN  IF quotes = {} THEN Len(text) + 1
        ELSE CHOOSE i \in quotes : \A j \in quotes : i <= j

Str(s) == TokLiteral(StringLit(s))

C11_StringLiterals ==
    /\ (pc \in {"lexer", "collecting"} /\ input # <<>> /\ input[1] = "\"") =>
          /\ tokens[1] = Str(SubSeq(input, 2, ClosingQuote(input, 1) - 1))
          /\ (TokensCollected /\ ClosingQuote(input, 1) > Len(input)) =>
                tokens = <<Str(Tail(input)), TokEOF>>
    /\ (TokensCollected /\ input = SrcStringLiterals) =>
          tokens = <<Str(<<"h", "e", "l", "l", "o">>), Str(<<"w", "o", "r", "l", "d">>),
                     Str(<<>>), TokEOF>>
    /\ (TokensCollected /\ input = SrcStringWithSpaces) =>
          tokens = <<Str(<<"h", "e", "l", "l", "o", " ", "w", "o", "r", "l", "d">>),
                     TokEOF>>
    /\ (TokensCollected /\ input = SrcEscapedQuote) =>
          tokens = <<Str(<<"a", "\\">>), TokIdentifier(<<"b">>), Str(<<>>), TokEOF>>

C11_Witness ==
    /\ TokensCollected
    /\ input = SrcUnterminatedString
    /\ tokens = <<Str(<<"u", "n", "t", "e", "r", "m", "i", "n", "a", "t", "e", "d">>),
                  TokEOF>>

(***************************************************************************)
(* C12: a word, the maximal run of alphanumeric characters and underscores *)
(* that starts with a letter or an underscore, is classified on its whole  *)
(* lexeme, case-sensitively: exactly `var` is the Var keyword, exactly     *)
(* `true` and `false` are Boolean literals, and every other word           *)
(* (`variable`, `Var`, `true1`, `_private`) is one Identifier holding the  *)
(* full text.                                                              *)
(***************************************************************************)
IsWord(text) ==
    /\ text # <<>>
    /\ text[1] \in Letters \cup {"_"}
    /\ \A i \in 1..Len(text) : text[i] \in Letters \cup Digits \cup {"_"}

Ident(name) == TokIdentifier(name)

WordToken(text) ==
    IF text = <<"v", "a", "r">> THEN TokVar
    ELSE IF text = <<"t", "r", "u", "e">> THEN TokLiteral(BooleanLit(TRUE))
    ELSE IF text = <<"f", "a", "l", "s", "e">> THEN TokLiteral(BooleanLit(FALSE))
    ELSE Ident(text)

C12_Words ==
    /\ (TokensCollected /\ IsWord(input)) => tokens = <<WordToken(input), TokEOF>>
    /\ (TokensCollected /\ input = SrcKeywords) =>
          tokens = <<TokVar, TokLiteral(BooleanLit(TRUE)), TokLiteral(BooleanLit(FALSE)),
                     TokEOF>>
    /\ (TokensCollected /\ input = SrcNearKeywords) =>
          tokens = <<Ident(<<"v", "a", "r", "i", "a", "b", "l", "e">>),
                     Ident(<<"V", "a", "r">>), Ident(<<"t", "r", "u", "e", "1">>),
                     Ident(<<"_", "p", "r", "i", "v", "a", "t", "e">>), TokEOF>>
    /\ (TokensCollected /\ input = SrcIdentifiers) =>
          tokens = <<Ident(<<"m", "y", "V", "a", "r">>), Ident(<<"x">>),
                     Ident(<<"t", "e", "s", "t", "1", "2", "3">>),
                     Ident(<<"_", "p", "r", "i", "v", "a", "t", "e">>), TokEOF>>
    /\ (TokensCollected /\ input = SrcMixedCase) =>
          tokens = <<Ident(<<"M", "y", "V", "a", "r">>), Ident(<<"m", "y", "V", "a", "r">>),
                     Ident(<<"M", "Y", "V", "A", "R">>), TokEOF>>

\* A word that only begins with the keyword is collected as one identifier.
C12_Witness ==
    /\ TokensCollected
    /\ input = <<"v", "a", "r", "1">>
    /\ tokens = <<Ident(<<"v", "a", "r", "1">>), TokEOF>>

(***************************************************************************)
(* C13: declaring a name again overwrites it.  After a successfully        *)
(* interpreted program the Environment has exactly one entry per declared  *)
(* name, holding the value of the last declaration of that name:           *)
(* the literal's value when its initializer is a literal, the value of the *)
(* named variable when it is an identifier not declared again afterwards.  *)
(* `var a = 1; var a = 2;` leaves the single entry a = 2.                  *)
(***************************************************************************)
ProgramStatements == parse_result.val.statements

LastDeclaration(stmts, i) ==
    /\ stmts[i].type = "VarDeclaration"
    /\ \A j \in (i + 1)..Len(stmts) :
          stmts[j].type = "VarDeclaration" => stmts[j].name # stmts[i].name

DeclaredNames(stmts) ==
    {stmts[i].name : i \in {k \in 1..Len(stmts) : stmts[k].type = "VarDeclaration"}}

C13_RedeclareOverwrites ==
    /\ pc = "done" =>
          /\ DOMAIN environment = DeclaredNames(ProgramStatements)
          /\ \A i \in 1..Len(ProgramStatements) :
                LastDeclaration(ProgramStatements, i) =>
                   LET stmt == ProgramStatements[i]
                   IN  /\ stmt.value.type = "Literal" =>
                             environment[stmt.name] = stmt.value.lit
                       /\ (/\ stmt.value.type = "Identifier"
                           /\ \A j \in i..Len(ProgramStatements) :
                                 ProgramStatements[j].type = "VarDeclaration" =>
                                     ProgramStatements[j].name # stmt.value.name) =>
                             environment[stmt.name] = environment[stmt.value.name]
    /\ (pc = "done" /\ input = SrcRedeclare) =>
          /\ DOMAIN environment = {<<"a">>}
          /\ environment[<<"a">>] = Num(2)

C13_Witness ==
    /\ pc = "done"
    /\ input = Joined(<<StmtDeclareOne, StmtCopyToB, StmtDeclareTwo>>)
    /\ DOMAIN environment = {<<"a">>, <<"b">>}
    /\ environment[<<"a">>] = Num(2)
    /\ environment[<<"b">>] = Num(1)

(***************************************************************************)
(* C14: an identifier evaluates successfully only when a declaration       *)
(* executed earlier in the run has bound it; otherwise the statement fails *)
(* with UndefinedVariable carrying that name.  Nothing is hoisted: the     *)
(* names bound while interpret runs are those of the statements already    *)
(* executed, so `var y = x;` fails with UndefinedVariable("x") also when   *)
(* `var x = 1;` follows it, and `var x = x;` fails the same way.           *)
(***************************************************************************)
\* The statements interpret has executed so far.
ExecutedStatements ==
    SubSeq(ProgramStatements, 1, Len(ProgramStatements) - Len(todo))

\* The expression of the statement interpret executes next.
NextExpression ==
    IF Head(todo).type = "VarDeclaration" THEN Head(todo).value ELSE Head(todo).expr

\* That statement is a bare identifier, as an initializer or on its own.
NextEvaluatesIdentifier ==
    pc = "running" /\ todo # <<>> /\ NextExpression.type = "Identifier"

C14_OnlyBoundNames ==
    /\ pc = "running" => DOMAIN environment = DeclaredNames(ExecutedStatements)
    /\ (PipelineFinished /\ input \in {SrcUndefinedVariable, SrcNoHoisting, SrcSelfReference}) =>
          /\ run_result = ResultErr(UndefinedVariable(<<"x">>))
          /\ DOMAIN environment = {}

C14_UndefinedVariable ==
    [][NextEvaluatesIdentifier =>
          IF NextExpression.name \in DOMAIN environment
          THEN /\ pc' = "running"
               /\ Head(todo).type = "VarDeclaration" =>
                     /\ Head(todo).name \in DOMAIN environment'
                     /\ environment'[Head(todo).name] = environment[NextExpression.name]
          ELSE /\ pc' = "runtime_error"
               /\ run_result' = ResultErr(UndefinedVariable(NextExpression.name))
               /\ environment' = environment]_vars

C14_Identifiers == []C14_OnlyBoundNames /\ C14_UndefinedVariable

C14_Witness ==
    /\ pc = "runtime_error"
    /\ input = SrcNoHoisting
    /\ run_result = ResultErr(UndefinedVariable(<<"x">>))
    /\ DOMAIN environment = {}

(***************************************************************************)
(* C15: a call of any function other than print, println and typeof whose  *)
(* arguments evaluate successfully fails with UndefinedFunction carrying   *)
(* the called name (`foo(1);`), and a declared variable of that name does  *)
(* not make the call succeed.  The step property is stated for the calls   *)
(* whose arguments are literals and bound identifiers.                     *)
(***************************************************************************)
BuiltinNames ==
    {<<"p", "r", "i", "n", "t">>, <<"p", "r", "i", "n", "t", "l", "n">>,
     <<"t", "y", "p", "e", "o", "f">>}

\* Every argument is a literal or a bound identifier.
ArgumentsSucceed(args) ==
    \A i \in 1..Len(args) :
        \/ args[i].type = "Literal"
        \/ args[i].type = "Identifier" /\ args[i].name \in DOMAIN environment

NextCallsUnknownFunction ==
    /\ pc = "running"
    /\ todo # <<>>
    /\ NextExpression.type = "FunctionCall"
    /\ NextExpression.name \notin BuiltinNames
    /\ ArgumentsSucceed(NextExpression.args)

Foo == <<"f", "o", "o">>

C15_NamedCalls ==
    /\ (PipelineFinished /\ input = SrcUndefinedFunction) =>
          run_result = ResultErr(UndefinedFunction(Foo))
    /\ (PipelineFinished /\ input = SrcShadowedFunction) =>
          /\ run_result = ResultErr(UndefinedFunction(Foo))
          /\ Bound(Foo, Num(1))
    /\ (PipelineFinished /\ input = SrcUnknownFunction) =>
          run_result =
             ResultErr(UndefinedFunction(<<"u", "n", "k", "n", "o", "w", "n", "_",
                                           "f", "u", "n", "c", "t", "i", "o", "n">>))

C15_UnknownCallFails ==
    [][NextCallsUnknownFunction =>
          /\ pc' = "runtime_error"
          /\ run_result' = ResultErr(UndefinedFunction(NextExpression.name))
          /\ environment' = environment
          /\ output' = output]_vars

C15_UndefinedFunction == []C15_NamedCalls /\ C15_UnknownCallFails

C15_Witness ==
    /\ pc = "runtime_error"
    /\ input = SrcShadowedFunction
    /\ run_result = ResultErr(UndefinedFunction(Foo))
    /\ Bound(Foo, Num(1))

(***************************************************************************)
(* C16: typeof with one argument returns the String naming the type of     *)
(* the argument's value: "string", "number", "boolean", or "null" for Null *)
(* (`typeof(print())`).  It writes no output and never fails.  The step    *)
(* property is stated for the declarations `var n = typeof(e);` whose e is *)
(* a literal or a bound identifier.                                        *)
(***************************************************************************)
Typeof == <<"t", "y", "p", "e", "o", "f">>

TypeName(value) ==
    IF value.kind = "String" THEN <<"s", "t", "r", "i", "n", "g">>
    ELSE IF value.kind = "Number" THEN <<"n", "u", "m", "b", "e", "r">>
    ELSE IF value.kind = "Boolean" THEN <<"b", "o", "o", "l", "e", "a", "n">>
    ELSE <<"n", "u", "l", "l">>

\* The value of a literal or a bound identifier.
SimpleValue(expr) ==
    IF expr.type = "Literal" THEN expr.lit ELSE environment[expr.name]

NextDeclaresTypeof ==
    /\ pc = "running"
    /\ todo # <<>>
    /\ Head(todo).type = "VarDeclaration"
    /\ NextExpression.type = "FunctionCall"
    /\ NextExpression.name = Typeof
    /\ Len(NextExpression.args) = 1
    /\ ArgumentsSucceed(NextExpression.args)

C16_NamedTypes ==
    /\ (PipelineFinished /\ input = SrcTypeof) =>
          /\ pc = "done"
          /\ Bound(<<"t", "s">>, ValString(<<"s", "t", "r", "i", "n", "g">>))
          /\ Bound(<<"t", "n">>, ValString(<<"n", "u", "m", "b", "e", "r">>))
          /\ Bound(<<"t", "b">>, ValString(<<"b", "o", "o", "l", "e", "a", "n">>))
          /\ Bound(<<"t", "z">>, ValString(<<"n", "u", "l", "l">>))
          /\ output = <<>>
    /\ (PipelineFinished /\ input = SrcBuiltins) =>
          Bound(<<"t">>, ValString(<<"n", "u", "m", "b", "e", "r">>))

C16_TypeofStep ==
    [][NextDeclaresTypeof =>
          /\ pc' = "running"
          /\ Head(todo).name \in DOMAIN environment'
          /\ environment'[Head(todo).name] =
                ValString(TypeName(SimpleValue(NextExpression.args[1])))
          /\ output' = output]_vars

NextCallsTypeofWrongly ==
    /\ pc = "running"
    /\ todo # <<>>
    /\ NextExpression.type = "FunctionCall"
    /\ NextExpression.name = Typeof
    /\ Len(NextExpression.args) # 1
    /\ ArgumentsSucceed(NextExpression.args)

C17_NamedCalls ==
    /\ (PipelineFinished /\ input = SrcTypeofNoArgs) =>
          run_result = ResultErr(ArityMismatch(Typeof, 1, 0))
    /\ (PipelineFinished /\ input = SrcArity) =>
          /\ run_result = ResultErr(ArityMismatch(Typeof, 1, 0))
          /\ Unbound(<<"t">>)
    /\ (PipelineFinished /\ input = SrcTypeofTwoArgs) =>
          run_result = ResultErr(ArityMismatch(Typeof, 1, 2))

C17_ArityStep ==
    [][NextCallsTypeofWrongly =>
          /\ pc' = "runtime_error"
          /\ run_result' =
                ResultErr(ArityMismatch(Typeof, 1, Len(NextExpression.args)))
          /\ environment' = environment
          /\ output' = output]_vars

C17_TypeofArity == []C17_NamedCalls /\ C17_ArityStep

C17_Witness ==
    /\ pc = "runtime_error"
    /\ input = SrcArity
    /\ run_result = ResultErr(ArityMismatch(Typeof, 1, 0))
    /\ Unbound(<<"t">>)

(***************************************************************************)
(* C18: interpret executes the statements in program order and is          *)
(* fail-fast.  It starts with the whole program; every successful step     *)
(* executes the first remaining statement and keeps the rest; a failing    *)
(* step returns that statement's error and leaves the Environment as it    *)
(* was; output is only ever appended to; and after the failure nothing     *)
(* changes until interpret is called again: no later declaration binds a   *)
(* name and no later print writes.                                         *)
(* `var a = 1; print("x"); var b = c; var d = 2; print("y");`              *)
(* ends with UndefinedVariable("c"), a = 1 as the only binding and x as    *)
(* the whole output.                                                       *)
(***************************************************************************)
IsPrefix(s, t) == Len(s) <= Len(t) /\ SubSeq(t, 1, Len(s)) = s

C18_FailFastExample ==
    (PipelineFinished /\ input = SrcFailFast) =>
        /\ run_result = ResultErr(UndefinedVariable(<<"c">>))
        /\ DOMAIN environment = {<<"a">>}
        /\ environment[<<"a">>] = Num(1)
        /\ output = <<"x">>

C18_InOrder ==
    [][/\ (pc = "parsed" /\ pc' = "running") => todo' = ProgramStatements
       /\ (pc = "running" /\ todo # <<>>) =>
             /\ IsPrefix(output, output')
             /\ pc' = "running" =>
                   /\ todo' = Tail(todo)
                   /\ run_result' = NoResult
                   /\ DOMAIN environment' =
                         DOMAIN environment \cup DeclaredNames(<<Head(todo)>>)
             /\ pc' = "runtime_error" =>
                   /\ run_result'.kind = "Err"
                   /\ environment' = environment
       /\ pc = "runtime_error" =>
             /\ UNCHANGED <<environment, output>>
             /\ pc' = "runtime_error" => UNCHANGED run_result
             /\ pc' # "runtime_error" => pc' = "again_running"]_vars

C18_FailFast == []C18_FailFastExample /\ C18_InOrder

C18_Witness ==
    /\ pc = "runtime_error"
    /\ input = SrcFailFast
    /\ run_result = ResultErr(UndefinedVariable(<<"c">>))
    /\ DOMAIN environment = {<<"a">>}
    /\ output = <<"x">>

(***************************************************************************)
(* C19: every failure of parse() is an UnexpectedToken { expected, found } *)
(* whose found is the lexer's current token at the failure (EOF when the   *)
(* input ends early, as in `var x = 42`) and whose expected names what was *)
(* required and not there: Equals, SemiColon, identifier, "expression"     *)
(* when the token at a primary position starts no expression, or           *)
(* "',' or ')'" when a call argument is followed by neither.               *)
(* UnexpectedEOF and InvalidExpression are never returned.                 *)
(***************************************************************************)
ParseFailure(expected, found) ==
    pc = "parse_error" => parse_result = ResultErr(UnexpectedToken(expected, found))

\* The token kinds that satisfy what `expected` names.
Satisfying(expected) ==
    CASE expected = "Equals" -> {"Equals"}
      [] expected = "SemiColon" -> {"SemiColon"}
      [] expected = "identifier" -> {"Identifier"}
      [] expected = "expression" -> {"Literal", "Identifier"}
      [] expected = "',' or ')'" -> {"Comma", "RightParen"}

C19_ParseErrors ==
    /\ pc = "parse_error" =>
          /\ parse_result.kind = "Err"
          /\ parse_result.err.type = "UnexpectedToken"
          /\ parse_result.err.found = current_token
          /\ parse_result.err.expected \in
                {"Equals", "SemiColon", "identifier", "expression", "',' or ')'"}
          /\ current_token.type \notin Satisfying(parse_result.err.expected)
    /\ input = SrcMissingSemicolon => ParseFailure("SemiColon", TokEOF)
    /\ input = SrcMissingEquals => ParseFailure("Equals", TokLiteral(Num(42)))
    /\ input = SrcMissingIdentifier => ParseFailure("identifier", TokEquals)
    /\ input = SrcInvalidExpressionStart => ParseFailure("expression", TokRightParen)
    /\ input = SrcUnclosedCall => ParseFailure("',' or ')'", TokSemiColon)
    /\ input \in {SrcMissingSemicolon, SrcMissingEquals, SrcMissingIdentifier,
                  SrcInvalidExpressionStart, SrcUnclosedCall} =>
          pc \notin {"parsed", "running", "done", "runtime_error"}

C19_Witness ==
    /\ pc = "parse_error"
    /\ input = SrcMissingSemicolon
    /\ parse_result = ResultErr(UnexpectedToken("SemiColon", TokEOF))
    /\ current_token = TokEOF

(***************************************************************************)
(* C20: when parse() returns Ok the lexer's current token is EOF and the   *)
(* Program holds exactly one Statement per source statement, in source     *)
(* order; a source of nothing but whitespace yields a Program of zero      *)
(* statements.  When parse() returns Err there is no Program, not even the *)
(* statements parsed before the error.  The statement count and order are  *)
(* stated for the programs built from StatementTexts, whose statements are *)
(* separated by their semicolons, and for test_multiple_statements.        *)
(***************************************************************************)
\* The AST of each statement text of StatementTexts.
StatementOf(text) ==
    CASE text = StmtDeclareOne -> StmtVarDeclaration(<<"a">>, ExprLiteral(Num(1)))
      [] text = StmtDeclareTwo -> StmtVarDeclaration(<<"a">>, ExprLiteral(Num(2)))
      [] text = StmtCopyToB -> StmtVarDeclaration(<<"b">>, ExprIdentifier(<<"a">>))
      [] text = StmtCopyToA -> StmtVarDeclaration(<<"a">>, ExprIdentifier(<<"b">>))
      [] text = StmtPrint ->
           StmtExpression(ExprFunctionCall(<<"p", "r", "i", "n", "t">>,
                                           <<ExprIdentifier(<<"a">>)>>))
      [] text = StmtUnknownCall ->
           StmtExpression(ExprFunctionCall(Foo, <<ExprIdentifier(<<"a">>)>>))
      [] text = StmtTypeof ->
           StmtVarDeclaration(<<"b">>,
                              ExprFunctionCall(Typeof, <<ExprIdentifier(<<"a">>)>>))
      [] text = StmtBadArity ->
           StmtExpression(ExprFunctionCall(Typeof, <<ExprIdentifier(<<"a">>),
                                                     ExprLiteral(Num(1))>>))

\* The index of the n-th semicolon of text; 0 for n = 0.
NthSemiColon(text, n) ==
    IF n = 0 THEN 0
    ELSE CHOOSE i \in 1..Len(text) :
            /\ text[i] = ";"
            /\ Cardinality({j \in 1..i : text[j] = ";"}) = n

\* The n-th statement of a program of StatementPrograms, without the space
\* that separates it from the statement before.
NthStatementText(text, n) ==
    SubSeq(text, IF n = 1 THEN 1 ELSE NthSemiColon(text, n - 1) + 2,
           NthSemiColon(text, n))

OnlyWhitespace(text) == \A i \in 1..Len(text) : is_whitespace(text[i])

C20_ParseResult ==
    /\ (ParseFinished /\ parse_result.kind = "Ok") =>
          /\ current_token = TokEOF
          /\ pc # "parse_error"
    /\ (ParseFinished /\ input \in StatementPrograms) =>
          /\ parse_result.kind = "Ok"
          /\ Len(ProgramStatements) = CountOf(input, {";"})
          /\ \A n \in 1..Len(ProgramStatements) :
                ProgramStatements[n] = StatementOf(NthStatementText(input, n))
    /\ (ParseFinished /\ input = SrcMultipleStatements) =>
          parse_result =
             ResultOk(Program(
                <<StmtVarDeclaration(<<"x">>, ExprLiteral(Num(10))),
                  StmtVarDeclaration(<<"y">>,
                                     ExprLiteral(StringLit(<<"t", "e", "s", "t">>))),
                  StmtExpression(ExprFunctionCall(<<"p", "r", "i", "n", "t">>,
                                                  <<ExprIdentifier(<<"x">>),
                                                    ExprIdentifier(<<"y">>)>>))>>))
    /\ (ParseFinished /\ OnlyWhitespace(input)) =>
          parse_result = ResultOk(Program(<<>>))
    /\ pc = "parse_error" =>
          /\ parse_result.kind = "Err"
          /\ DOMAIN parse_result = {"kind", "err"}
          /\ statements = <<>>
    /\ (ParseFinished /\ input = SrcErrorAfterStatements) =>
          /\ pc = "parse_error"
          /\ parse_result = ResultErr(UnexpectedToken("expression", TokSemiColon))

C20_Witness ==
    /\ pc = "parsed"
    /\ input = Joined(<<StmtPrint, StmtDeclareTwo, StmtCopyToB>>)
    /\ current_token = TokEOF
    /\ ProgramStatements =
          <<StatementOf(StmtPrint), StatementOf(StmtDeclareTwo), StatementOf(StmtCopyToB)>>

(***************************************************************************)
(* C21: print and println accept any number of arguments, zero included,   *)
(* and never fail on successfully evaluated arguments.  print appends the  *)
(* display forms of its arguments in argument order, separated by single   *)
(* spaces, with no trailing newline; println appends the same text and one *)
(* newline; both return Null; the output of successive statements appears  *)
(* in statement order.  The step property is stated for the calls whose    *)
(* arguments are literals and bound identifiers.                           *)
(***************************************************************************)
PrintName == <<"p", "r", "i", "n", "t">>

PrintlnName == <<"p", "r", "i", "n", "t", "l", "n">>

\* The display forms of simple arguments, joined by single spaces.
PrintedText(args) == Joined([i \in 1..Len(args) |-> Display(SimpleValue(args[i]))])

NextCallsPrinter ==
    /\ pc = "running"
    /\ todo # <<>>
    /\ NextExpression.type = "FunctionCall"
    /\ NextExpression.name \in {PrintName, PrintlnName}
    /\ ArgumentsSucceed(NextExpression.args)

C21_NamedOutput ==
    /\ (PipelineFinished /\ input = SrcBuiltins) =>
          /\ pc = "done"
          /\ output =
               <<"v", "a", "l", "u", "e", ":", " ", "1", "\n", "n", "o", " ", "n",
                 "e", "w", "l", "i", "n", "e", " ", "4", ".", "2", "8", " ", "t",
                 "r", "u", "e">>
    /\ (PipelineFinished /\ input = SrcPrintForms) =>
          /\ pc = "done"
          /\ Bound(<<"r">>, ValNull)
          /\ Bound(<<"s">>, ValNull)
          /\ output =
               <<"a", " ", "1", "\n", "n", "u", "l", "l", " ", "n", "u", "l", "l",
                 " ", "t", "r", "u", "e", "\n">>
    /\ (PipelineFinished /\ input = SrcPrintlnHi) =>
          pc = "done" /\ output = <<"h", "i", "\n">>
    /\ (PipelineFinished /\ input = SrcPrintlnEmpty) =>
          pc = "done" /\ output = <<"\n">>
    /\ (PipelineFinished /\ input = SrcCallNoArgs) =>
          pc = "done" /\ output = <<>>

C21_PrintStep ==
    [][NextCallsPrinter =>
          /\ pc' = "running"
          /\ output' =
               output \o PrintedText(NextExpression.args)
                      \o (IF NextExpression.name = PrintlnName THEN <<"\n">> ELSE <<>>)
          /\ IF Head(todo).type = "VarDeclaration"
             THEN Head(todo).name \in DOMAIN environment'
                  /\ environment'[Head(todo).name] = ValNull
             ELSE environment' = environment]_vars

C22_NoUnaryMinus ==
    (ParseFinished /\ input = SrcNegatedIdentifier) =>
        /\ parse_result.kind = "Err"
        /\ pc = "parse_error"

(***************************************************************************)
(* C23: in a primary position an identifier immediately followed by `(`    *)
(* parses to a FunctionCall carrying that name and its argument            *)
(* expressions in source order (none for `f()`, calls allowed as           *)
(* arguments), and an identifier followed by any other token parses to an  *)
(* Identifier reference without consuming that token: the token is the     *)
(* statement's semicolon in `var y = x;` and `a;`, and the found token of  *)
(* the error in `x = 1;`.                                                  *)
(***************************************************************************)
Call(name, args) == ExprFunctionCall(name, args)

Ref(name) == ExprIdentifier(name)

Parsed(stmts) == ParseFinished => parse_result = ResultOk(Program(stmts))

\* The text is one word that is no keyword, followed by a semicolon.
IsReferenceStatement(text) ==
    /\ Len(text) >= 2
    /\ text[Len(text)] = ";"
    /\ IsWord(SubSeq(text, 1, Len(text) - 1))
    /\ WordToken(SubSeq(text, 1, Len(text) - 1)).type = "Identifier"

C23_CallOrReference ==
    /\ input = SrcCallNoArgs => Parsed(<<StmtExpression(Call(PrintName, <<>>))>>)
    /\ input = SrcCallWithArgs =>
          Parsed(<<StmtExpression(
                     Call(PrintName,
                          <<ExprLiteral(StringLit(<<"h", "e", "l", "l", "o">>)),
                            ExprLiteral(Num(42)), ExprLiteral(BooleanLit(TRUE))>>))>>)
    /\ input = SrcCallWithIdentifierArgs =>
          Parsed(<<StmtExpression(Call(PrintName, <<Ref(<<"x">>), Ref(<<"y">>)>>))>>)
    /\ input = SrcNestedCalls =>
          Parsed(<<StmtExpression(
                     Call(<<"f">>, <<Call(<<"g">>, <<Ref(<<"x">>)>>),
                                     Call(<<"h">>, <<>>)>>))>>)
    /\ input = SrcUndefinedVariable =>
          Parsed(<<StmtVarDeclaration(<<"y">>, Ref(<<"x">>))>>)
    /\ IsReferenceStatement(input) =>
          Parsed(<<StmtExpression(Ref(SubSeq(input, 1, Len(input) - 1)))>>)
    /\ (ParseFinished /\ input = SrcIdentifierThenEquals) =>
          /\ parse_result = ResultErr(UnexpectedToken("SemiColon", TokEquals))
          /\ current_token = TokEquals

C23_Witness ==
    /\ pc = "parsed"
    /\ input = SrcNestedCalls
    /\ parse_result.val.statements[1].expr.args =
         <<Call(<<"g">>, <<Ref(<<"x">>)>>), Call(<<"h">>, <<>>)>>

(***************************************************************************)
(* C24: the left operand of a binary operation is evaluated before the     *)
(* right one: `var x = y + 1;` with y undeclared parses successfully and   *)
(* fails at run time with UndefinedVariable("y").                          *)
(***************************************************************************)
C24_LeftOperandFirst ==
    (PipelineFinished /\ input = SrcUndefinedOperand) =>
        /\ parse_result.kind = "Ok"
        /\ run_result = ResultErr(UndefinedVariable(<<"y">>))

(***************************************************************************)
(* C25: all arguments of a call are evaluated left to right before the     *)
(* name is dispatched.  When an argument fails the call returns the error  *)
(* of the first failing argument and the builtin is not run: `foo(x);`     *)
(* with x undeclared fails with UndefinedVariable("x"), not                *)
(* UndefinedFunction; `typeof(x, 1);` fails with UndefinedVariable, not    *)
(* ArityMismatch; `print("a", x);` writes nothing.  Arguments that print   *)
(* do so in argument order and before the call itself.  The step property  *)
(* is stated for the calls whose arguments are literals and identifiers.   *)
(***************************************************************************)
SimpleArguments(args) ==
    \A i \in 1..Len(args) : args[i].type \in {"Literal", "Identifier"}

UnboundArgument(args, i) ==
    args[i].type = "Identifier" /\ args[i].name \notin DOMAIN environment

\* The name of the first argument that is an unbound identifier.
FirstUnbound(args) ==
    args[CHOOSE i \in 1..Len(args) :
            /\ UnboundArgument(args, i)
            /\ \A j \in 1..(i - 1) : ~UnboundArgument(args, j)].name

NextCallHasUnboundArgument ==
    /\ pc = "running"
    /\ todo # <<>>
    /\ NextExpression.type = "FunctionCall"
    /\ SimpleArguments(NextExpression.args)
    /\ \E i \in 1..Len(NextExpression.args) : UnboundArgument(NextExpression.args, i)

FailedWith(err) == PipelineFinished => run_result = ResultErr(err)

C25_NamedCalls ==
    /\ input = SrcUnknownCallUndefinedArg => FailedWith(UndefinedVariable(<<"x">>))
    /\ input = SrcTypeofUndefinedArg => FailedWith(UndefinedVariable(<<"x">>))
    /\ input = SrcPrintUndefinedArg => FailedWith(UndefinedVariable(<<"x">>))
    /\ (input = SrcPrintUndefinedArg /\ calls = 0) => output = <<>>
    /\ input = SrcCallWithIdentifierArgs => FailedWith(UndefinedVariable(<<"x">>))
    /\ input = SrcArgumentOutputThenError =>
          /\ FailedWith(UndefinedVariable(<<"x">>))
          /\ PipelineFinished => output = <<"a">>
    /\ (PipelineFinished /\ input = SrcArgumentOrder) =>
          /\ pc = "done"
          /\ output = <<"a", "b", "n", "u", "l", "l", " ", "n", "u", "l", "l">>

C25_ArgumentStep ==
    [][NextCallHasUnboundArgument =>
          /\ pc' = "runtime_error"
          /\ run_result' =
                ResultErr(UndefinedVariable(FirstUnbound(NextExpression.args)))
          /\ output' = output
          /\ environment' = environment]_vars

C25_ArgumentsFirst == []C25_NamedCalls /\ C25_ArgumentStep

C25_Witness ==
    /\ pc = "runtime_error"
    /\ input = SrcArgumentOutputThenError
    /\ run_result = ResultErr(UndefinedVariable(<<"x">>))
    /\ output = <<"a">>

(***************************************************************************)
(* C26: only variable declarations change the Environment.  It is empty    *)
(* until interpret runs; a step that executes an expression statement      *)
(* (successful or failing) leaves every binding unchanged; a step that     *)
(* executes `var n = e;` changes at most the binding of n; and no other    *)
(* step of the pipeline changes it.                                        *)
(***************************************************************************)
\* interpret, in its first call or a later one, is about to execute Head(todo).
Executing == pc \in {"running", "again_running"} /\ todo # <<>>

C26_EmptyBeforeInterpret ==
    pc \in {"lexer", "collecting", "parsing", "parsed", "parse_error"} =>
        DOMAIN environment = {}

C26_FrameStep ==
    [][IF Executing
       THEN IF Head(todo).type = "Expression"
            THEN environment' = environment
            ELSE /\ DOMAIN environment \subseteq DOMAIN environment'
                 /\ DOMAIN environment' \subseteq DOMAIN environment \cup {Head(todo).name}
                 /\ \A n \in DOMAIN environment \ {Head(todo).name} :
                       environment'[n] = environment[n]
       ELSE environment' = environment]_vars

C26_OnlyDeclarations == []C26_EmptyBeforeInterpret /\ C26_FrameStep

\* `print(a);` has been executed after `var a = 1;` and a is the only binding.
C26_Witness ==
    /\ pc = "running"
    /\ input = Joined(<<StmtDeclareOne, StmtPrint, StmtCopyToB>>)
    /\ Len(todo) = 1
    /\ output = <<"1">>
    /\ DOMAIN environment = {<<"a">>}
    /\ environment[<<"a">>] = Num(1)

(***************************************************************************)
(* C27: a variable declaration whose initializer fails leaves the          *)
(* Environment exactly as it was: the declared name stays unbound when it  *)
(* was unbound and keeps its value when it was bound.  After               *)
(* `var a = 1; var a = b;` with b undeclared interpret returns an error    *)
(* and a is still bound to 1.                                              *)
(***************************************************************************)
SrcRebindFails == Joined(<<StmtDeclareOne, StmtCopyToA>>)

C27_NamedDeclarations ==
    /\ (PipelineFinished /\ input = SrcRebindFails) =>
          /\ run_result = ResultErr(UndefinedVariable(<<"b">>))
          /\ DOMAIN environment = {<<"a">>}
          /\ environment[<<"a">>] = Num(1)
    /\ (PipelineFinished /\ input \in {SrcArity, SrcSelfReference, SrcUndefinedVariable}) =>
          /\ run_result.kind = "Err"
          /\ DOMAIN environment = {}

C27_FailedDeclarationStep ==
    [][(/\ Executing
        /\ Head(todo).type = "VarDeclaration"
        /\ pc' \in {"runtime_error", "again_error"}) =>
          /\ run_result'.kind = "Err"
          /\ environment' = environment]_vars

C27_FailedInitializer == []C27_NamedDeclarations /\ C27_FailedDeclarationStep

C27_Witness ==
    /\ pc = "runtime_error"
    /\ input = SrcRebindFails
    /\ run_result = ResultErr(UndefinedVariable(<<"b">>))
    /\ Bound(<<"a">>, Num(1))
    /\ Unbound(<<"b">>)

(***************************************************************************)
(* C28: lenient recovery from malformed numeric text discards only the     *)
(* characters of the numeric text itself, so the character that follows    *)
(* it is still tokenized: `var x = 1.2.3;` and `var x = -.;` produce the   *)
(* SemiColon token before EOF.                                             *)
(***************************************************************************)
C28_RecoveryKeepsFollower ==
    (TokensCollected /\ input \in {SrcMalformedNumber, SrcMalformedSign}) =>
        /\ Len(tokens) >= 2
        /\ tokens[Len(tokens) - 1] = TokSemiColon
        /\ tokens[Len(tokens)] = TokEOF

(***************************************************************************)
(* The pipeline under the scheduling of sequential code: a loop that can   *)
(* take its next turn takes it (the token driver's advance, the loop of    *)
(* Parser::parse).  Weak fairness of Advance and of ParseStatement is      *)
(* written out as []<>~ENABLED \/ []<><<A>>_vars with the guard of the     *)
(* action as its enabling condition: each of the two actions changes vars  *)
(* whenever its guard holds (a token is appended, a statement is pushed or *)
(* pc changes).                                                            *)
(***************************************************************************)
AdvanceEnabled ==
    /\ pc \in {"lexer", "collecting"}
    /\ current_token = TokEOF => extra < MaxExtraAdvance

ParseStatementEnabled == pc \in {"lexer", "parsing"} /\ current_token # TokEOF

FairSpec ==
    /\ Init
    /\ [][Next]_vars
    /\ ([]<>(~AdvanceEnabled) \/ []<><<Advance>>_vars)
    /\ ([]<>(~ParseStatementEnabled) \/ []<><<ParseStatement>>_vars)
    /\ WF_vars(ParseReturn)

(***************************************************************************)
(* C29: parse() terminates on every finite source text.  Each tokenizer    *)
(* advance consumes at least one character or yields EOF, so EOF is        *)
(* reached after at most (input length + 1) advances; each statement parse *)
(* consumes at least one token or returns an error; hence the token        *)
(* driver reaches EOF and parse() returns Ok or Err.                       *)
(***************************************************************************)
\* The tokens not yet consumed by a lexer whose current token is tok and whose
\* cursor is at p: tok and the tokens after the cursor, EOF not counted.
TokensAheadOf(p, tok) ==
    IF tok = TokEOF THEN 0 ELSE Len(collect_tokens(input, p))

TokensAhead == TokensAheadOf(pos, current_token)

\* A successful parse_statement leaves fewer tokens ahead than it found.
ConsumesToken(r) ==
    r.ok => TokensAheadOf(r.lx.pos, r.lx.current_token) < TokensAhead

C29_Bounded ==
    /\ pc = "lexer" => (pos > 1 \/ current_token = TokEOF)
    /\ pc \in {"lexer", "collecting"} => Len(tokens) - extra <= Len(input) + 1
    /\ pc \in {"lexer", "parsing"} => Len(statements) + TokensAhead <= Len(input)
    /\ (pc \in {"lexer", "parsing"} /\ current_token # TokEOF) =>
          \A r \in {parse_statement(input, LexerState(pos, current_token))} :
             ConsumesToken(r)

C29_AdvanceStep ==
    [][pc' = "collecting" => (pos' > pos \/ current_token' = TokEOF)]_vars

C29_StatementStep ==
    [][(pc \in {"lexer", "parsing"} /\ pc' \in {"parsing", "parse_error"}) =>
          \/ pc' = "parse_error" /\ parse_result'.kind = "Err"
          \/ /\ pc' = "parsing"
             /\ pos' > pos
             /\ Len(statements') = Len(statements) + 1]_vars

C29_Reached ==
    /\ (pc = "collecting") ~> (current_token = TokEOF)
    /\ (pc = "parsing") ~> (pc \in {"parsed", "parse_error"} /\ parse_result.kind \in {"Ok", "Err"})

C29_Terminates ==
    /\ []C29_Bounded
    /\ C29_AdvanceStep
    /\ C29_StatementStep
    /\ C29_Reached

\* parse() has returned Ok after as many statements as the bounds allow.
C29_Witness ==
    /\ pc = "parsed"
    /\ parse_result.kind = "Ok"
    /\ Len(parse_result.val.statements) = MaxStmts

(***************************************************************************)
(* C30: the Environment belongs to the Interpreter, not to one interpret   *)
(* call.  A freshly constructed Interpreter has no bindings; a later call  *)
(* of interpret starts with the bindings the earlier calls left, those     *)
(* made before the failing statement of a call that returned an error      *)
(* included; no step ever removes a binding; and an identifier reference   *)
(* executed in a later call reads the binding an earlier call made.        *)
(***************************************************************************)
SrcDeclareThenFail == Joined(<<StmtDeclareOne, StmtUnknownCall>>)

\* The statement interpret is about to execute is `var n = m;`.
NextCopies(n, m) ==
    /\ Executing
    /\ Head(todo) = StmtVarDeclaration(n, ExprIdentifier(m))

C30_FreshInterpreter ==
    /\ (calls = 0 /\ pc \notin {"running", "done", "runtime_error"}) =>
          environment = EnvironmentNew
    /\ (input = SrcDeclareThenFail /\ pc = "runtime_error") =>
          Bound(<<"a">>, Num(1))
    /\ (input = SrcDeclareThenFail /\ calls > 0) =>
          (Bound(<<"a">>, Num(1)) \/ Bound(<<"a">>, Num(2)))

C30_LaterCallStep ==
    [][/\ DOMAIN environment \subseteq DOMAIN environment'
       /\ (pc' = "again_running" /\ pc # "again_running") =>
             /\ pc \in {"done", "runtime_error", "again_done", "again_error"}
             /\ environment' = environment
       /\ pc = "again_running" =>
             \A n, m \in {<<"a">>, <<"b">>} :
                NextCopies(n, m) =>
                   IF m \in DOMAIN environment
                   THEN /\ pc' = "again_running"
                        /\ environment'[n] = environment[m]
                   ELSE /\ pc' = "again_error"
                        /\ run_result' = ResultErr(UndefinedVariable(m))]_vars

C30_EnvironmentPersists == []C30_FreshInterpreter /\ C30_LaterCallStep

\* After `var a = 1; foo(a);` failed at foo, a later call ran `var b = a;`.
C30_Witness ==
    /\ input = SrcDeclareThenFail
    /\ calls = 1
    /\ pc = "again_done"
    /\ run_result = ResultOk(TRUE)
    /\ Bound(<<"a">>, Num(1))
    /\ Bound(<<"b">>, Num(1))

====
